---- MODULE Spec2Model ----
(***************************************************************************)
(* Model of the schema bootstrap of AirportApp (src/database/db.py):       *)
(* init_db and the migration, rebuild, repair, cleanup and backfill steps  *)
(* it runs against one SQLite store file.                                  *)
(*                                                                         *)
(* The store is a record: per table its column set (empty = the table is   *)
(* absent), its rows (functions from column name to value), the role CHECK *)
(* of users, the table each users-referencing foreign key names, and the   *)
(* indexes.  SQL values are integers: NULL, '' and every text value have a *)
(* code.                                                                   *)
(***************************************************************************)
EXTENDS Integers, FiniteSets, Sequences, TLC

\* ------------------------------------------------------------------ values
NULL == 0 - 1
EMPTY == 0
\* created_at_utc classes: older than the 60 day retention, or within it
OLD == 1
RECENT == 2
\* text code of the fee key 'TICKET' and of the label "Plane Ticket"
TICKET == 900
PlaneTicket == 1000
\* text codes of the roles; Boss stands for any role outside the CHECK list
User == 1
Admin == 2
Deputy == 3
Boss == 4
\* text codes of fee_source, currency and payment_method values
AirlineSource == 1
AirportSource == 2
TicketSource == 3
EUR == 978
CASH == 1

\* bounds of the exploration
MaxRuns == 3
MaxCrashes == 1
MaxKey == 2
MaxValue == 2
MaxOps == 3

\* _utc_now_iso() during the r-th run of init_db
Now(r) == 10 + r

\* Python truthiness of a fetched value: None, 0 and '' are falsy
Truthy(v) == v # NULL /\ v # 0
\* the Python expression  v or dflt
OrElse(v, dflt) == IF Truthy(v) THEN v ELSE dflt

\* ------------------------------------------------------------------ schema
ManagedTables ==
  {"users", "auth_logs", "sales_logs", "app_state", "notification_emails",
   "notification_templates", "notification_logs", "report_snapshots",
   "variable_rewards_snapshots", "airlines", "airline_fees",
   "airline_destinations", "airport_service_fees", "sales", "sale_items"}
ShadowTables == {"users_old", "auth_logs_old"}
AllTables == ManagedTables \cup ShadowTables

\* tables holding a foreign key to users (auth_logs_old inherits auth_logs')
FkTables ==
  {"auth_logs", "auth_logs_old", "sales_logs", "report_snapshots",
   "variable_rewards_snapshots"}
\* the referencing column of each
FkCol(t) == IF t = "report_snapshots" THEN "created_by" ELSE "user_id"
\* ON DELETE action of each
OnDelete(t) == IF t = "variable_rewards_snapshots" THEN "CASCADE" ELSE "SET NULL"

UsersBaseCols == {"id", "fullname", "nickname", "password", "role"}
QACols == {"q1", "a1", "q2", "a2", "q3", "a3"}
\* CREATE TABLE IF NOT EXISTS users in init_db
UsersCols ==
  UsersBaseCols \cup QACols \cup
  {"must_change_password", "approved", "active", "approved_by",
   "approved_at_utc", "created_at_utc"}
\* CREATE TABLE IF NOT EXISTS users in _rebuild_users_table_if_needed
RebuildUsersCols ==
  UsersBaseCols \cup QACols \cup
  {"must_change_password", "approved", "approved_by",
   "approved_at_utc", "created_at_utc"}
AuthLogsCols ==
  {"id", "user_id", "nickname", "fullname", "role", "action", "success",
   "ip", "user_agent", "details", "created_at_utc"}
SalesLogsCols ==
  {"id", "user_id", "sale_id", "action", "details", "ip", "user_agent",
   "created_at_utc"}
SalesCols ==
  {"id", "sale_group_id", "airline_id", "destination_id", "pnr",
   "passenger_name", "fee_source", "fee_id", "fee_key", "fee_name", "amount",
   "currency", "quantity", "total_amount", "sold_at_utc", "created_by",
   "payment_method", "cash_amount", "card_amount", "airline_fee_id",
   "airline_fee_key", "airline_fee_name", "airline_amount", "airline_qty",
   "airline_total", "airport_fee_id", "airport_fee_key", "airport_fee_name",
   "airport_amount", "airport_qty", "airport_total", "ticket_qty",
   "ticket_amount", "ticket_total", "grand_total"}
SaleItemsCols ==
  {"id", "sale_id", "fee_source", "fee_id", "fee_key", "fee_name", "amount",
   "currency", "quantity", "total_amount", "created_at_utc"}

\* the column list of each CREATE TABLE IF NOT EXISTS of init_db
CreateCols(t) ==
  CASE t = "users" -> UsersCols
    [] t = "auth_logs" -> AuthLogsCols
    [] t = "sales_logs" -> SalesLogsCols
    [] t = "app_state" -> {"key", "value"}
    [] t = "notification_emails" -> {"id", "email", "created_at_utc"}
    [] t = "notification_templates" ->
         {"id", "name", "slug", "subject", "body", "enabled",
          "created_at_utc", "updated_at_utc"}
    [] t = "notification_logs" ->
         {"id", "template_id", "event_key", "sent_to", "subject", "body",
          "success", "error", "created_at_utc"}
    [] t = "report_snapshots" ->
         {"id", "report_type", "date_key", "created_by", "created_at_utc"}
    [] t = "variable_rewards_snapshots" ->
         {"id", "year", "month", "scope", "user_id", "total_monthly",
          "percent", "reduced_total", "manual_amount", "computed_amount",
          "created_at_utc"}
    [] t = "airlines" ->
         {"id", "name", "code", "country", "active", "created_at_utc",
          "updated_at_utc"}
    [] t = "airline_fees" ->
         {"id", "airline_id", "fee_key", "fee_name", "amount", "currency",
          "unit", "notes", "updated_at_utc"}
    [] t = "airline_destinations" ->
         {"id", "airline_id", "dest_code", "dest_name", "active",
          "created_at_utc", "updated_at_utc"}
    [] t = "airport_service_fees" ->
         {"id", "fee_key", "fee_name", "amount", "currency", "unit", "notes",
          "updated_at_utc"}
    [] t = "sales" -> SalesCols
    [] t = "sale_items" -> SaleItemsCols
    [] OTHER -> {}

\* the columns the _migrate_<t>_table function adds when absent
\* (auth_logs, sales_logs and app_state have no add-column step)
MigrateCols(t) ==
  CASE t = "users" -> UsersCols \ UsersBaseCols
    [] t = "notification_emails" -> {"created_at_utc"}
    [] t = "notification_templates" -> CreateCols(t) \ {"id"}
    [] t = "notification_logs" -> CreateCols(t) \ {"id"}
    [] t = "report_snapshots" -> CreateCols(t) \ {"id"}
    [] t = "variable_rewards_snapshots" -> CreateCols(t) \ {"id"}
    [] t = "airlines" -> CreateCols(t) \ {"id", "name"}
    [] t = "airline_fees" -> CreateCols(t) \ {"id"}
    [] t = "airline_destinations" -> CreateCols(t) \ {"id"}
    [] t = "airport_service_fees" -> CreateCols(t) \ {"id"}
    [] t = "sales" -> SalesCols \ {"id"}
    [] t = "sale_items" -> SaleItemsCols \ {"id"}
    [] OTHER -> {}

\* DEFAULT of each ALTER TABLE ... ADD COLUMN
AddDefault(t, c) ==
  CASE c = "currency" -> EUR
    [] c = "fee_source" -> AirlineSource
    [] c = "payment_method" -> CASH
    [] c \in {"approved", "active", "enabled", "success", "quantity",
              "airline_qty", "airport_qty"} -> 1
    [] c \in {"must_change_password", "total_monthly", "percent",
              "reduced_total", "manual_amount", "computed_amount", "amount",
              "total_amount", "cash_amount", "card_amount", "airline_amount",
              "airline_total", "airport_amount", "airport_total",
              "ticket_qty", "ticket_amount", "ticket_total", "grand_total",
              "fee_id"} -> 0
    [] t = "sales" /\ c = "airline_id" -> 0
    [] t \in {"sales", "sale_items"} /\ c \in {"fee_name", "sold_at_utc", "created_at_utc"} -> EMPTY
    [] OTHER -> NULL

\* the timestamp columns _migrate_<t>_table stamps with now where NULL or ''
StampCols(t) ==
  CASE t \in {"users", "variable_rewards_snapshots", "notification_emails",
              "report_snapshots", "sale_items"} -> {"created_at_utc"}
    [] t \in {"notification_templates", "airlines", "airline_destinations"} ->
         {"created_at_utc", "updated_at_utc"}
    [] t \in {"airline_fees", "airport_service_fees"} -> {"updated_at_utc"}
    [] t = "sales" -> {"sold_at_utc"}
    [] OTHER -> {}

\* the CREATE [UNIQUE] INDEX IF NOT EXISTS names of each migration
IndexNames(t) ==
  CASE t = "auth_logs" -> {"idx_auth_logs_created", "idx_auth_logs_user"}
    [] t = "sales_logs" ->
         {"idx_sales_logs_created", "idx_sales_logs_user", "idx_sales_logs_sale"}
    [] t = "variable_rewards_snapshots" ->
         {"idx_var_rewards_year_month", "idx_var_rewards_user", "ux_var_rewards_scope"}
    [] t = "notification_emails" -> {"ux_notification_emails_email"}
    [] t = "notification_templates" -> {"ux_notification_templates_slug"}
    [] t = "notification_logs" ->
         {"idx_notification_logs_created", "idx_notification_logs_template"}
    [] t = "report_snapshots" ->
         {"ux_report_snapshots_key", "idx_report_snapshots_created"}
    [] t = "airlines" -> {"ux_airlines_code", "idx_airlines_active"}
    [] t = "airline_fees" -> {"idx_fees_airline", "ux_fee_airline_key"}
    [] t = "airline_destinations" ->
         {"idx_destinations_airline", "idx_destinations_active",
          "ux_destinations_airline_code"}
    [] t = "airport_service_fees" -> {"ux_airport_service_fee_key"}
    [] t = "sales" ->
         {"idx_sales_airline", "idx_sales_destination", "idx_sales_pnr",
          "idx_sales_passenger", "idx_sales_sold_at", "idx_sales_created_by",
          "idx_sales_payment_method"}
    [] t = "sale_items" -> {"idx_sale_items_sale", "idx_sale_items_source"}
    [] OTHER -> {}

\* the key columns of the unique index each migration creates
UniqueKey(t) ==
  CASE t = "variable_rewards_snapshots" -> {"year", "month", "scope", "user_id"}
    [] t = "notification_emails" -> {"email"}
    [] t = "notification_templates" -> {"slug"}
    [] t = "report_snapshots" -> {"report_type", "date_key"}
    [] t = "airlines" -> {"code"}
    [] t = "airline_fees" -> {"airline_id", "fee_key"}
    [] t = "airline_destinations" -> {"airline_id", "dest_code"}
    [] t = "airport_service_fees" -> {"fee_key"}
    [] OTHER -> {}
UniqueIndexName(t) ==
  CASE t = "variable_rewards_snapshots" -> "ux_var_rewards_scope"
    [] t = "notification_emails" -> "ux_notification_emails_email"
    [] t = "notification_templates" -> "ux_notification_templates_slug"
    [] t = "report_snapshots" -> "ux_report_snapshots_key"
    [] t = "airlines" -> "ux_airlines_code"
    [] t = "airline_fees" -> "ux_fee_airline_key"
    [] t = "airline_destinations" -> "ux_destinations_airline_code"
    [] t = "airport_service_fees" -> "ux_airport_service_fee_key"
    [] OTHER -> "none"

\* ------------------------------------------------------------ introspection
\* _table_exists: a sqlite_master row of type 'table' with that name
_table_exists(d, t) == d.cols[t] # {}
\* _get_columns: PRAGMA table_info, empty for an absent table
_get_columns(d, t) == d.cols[t]
\* the ids of the rows of a table
Ids(d, t) == {r["id"] : r \in d.rows[t]}

\* the trigger without its test for 'Deputy'
needs_rebuild_unchecked(d) == d.check["users"] # "none"
\* needs_rebuild: the stored text has a role CHECK that lacks 'Deputy'
needs_rebuild(d) == d.check["users"] = "old"

\* the CHECK the rebuild would write had the role list not been extended
RebuildUsersCheck_stale == "old"
\* the role CHECK of the users definition the rebuild creates
RebuildUsersCheck == "new"

\* the role values the CHECK of the live users table lets through
CheckAccepts(d, role) ==
  CASE d.check["users"] = "old" -> role \in {User, Admin}
    [] d.check["users"] = "new" -> role \in {User, Admin, Deputy}
    [] OTHER -> TRUE

\* the detection answering only while users_old is there to be referenced
_auth_logs_references_users_old_live(d) ==
  /\ _table_exists(d, "auth_logs")
  /\ _table_exists(d, "users_old")
  /\ d.fk["auth_logs"] = "users_old"
\* _auth_logs_references_users_old: PRAGMA foreign_key_list, then the text scan
_auth_logs_references_users_old(d) ==
  IF ~_table_exists(d, "auth_logs") THEN FALSE
  ELSE d.fk["auth_logs"] = "users_old"

\* ------------------------------------------------------------- the engine
\* ALTER TABLE from RENAME TO to: columns, rows, CHECK, own foreign key and
\* indexes follow the table; every foreign key that named `from` names `to`
RenameTable(d, from, to) ==
  [cols |-> [d.cols EXCEPT ![to] = d.cols[from], ![from] = {}],
   rows |-> [d.rows EXCEPT ![to] = d.rows[from], ![from] = {}],
   check |-> IF from = "users"
             THEN [d.check EXCEPT ![to] = d.check[from], ![from] = "none"]
             ELSE d.check,
   fk |-> [t \in FkTables |->
            LET own == IF t = to /\ from \in FkTables THEN d.fk[from]
                       ELSE IF t = from THEN "none" ELSE d.fk[t]
            IN IF own = from THEN to ELSE own],
   idx |-> {<<i[1], IF i[2] = from THEN to ELSE i[2]>> : i \in d.idx}]

\* CREATE TABLE IF NOT EXISTS t (...): nothing when t exists
CreateTable(d, t, columns, chk) ==
  IF _table_exists(d, t) THEN d
  ELSE [d EXCEPT !.cols[t] = columns,
                 !.rows[t] = {},
                 !.check = IF t = "users" THEN [d.check EXCEPT ![t] = chk] ELSE d.check,
                 !.fk = IF t \in FkTables THEN [d.fk EXCEPT ![t] = "users"] ELSE d.fk]

\* the rows of a dependent after the implicit DELETE of every row of t
AfterParentDelete(d, dep, t) ==
  IF d.fk[dep] # t \/ ~_table_exists(d, dep) THEN d.rows[dep]
  ELSE IF OnDelete(dep) = "CASCADE"
       THEN {r \in d.rows[dep] : r[FkCol(dep)] \notin Ids(d, t)}
       ELSE {IF r[FkCol(dep)] \in Ids(d, t) THEN [r EXCEPT ![FkCol(dep)] = NULL] ELSE r
               : r \in d.rows[dep]}

\* DROP TABLE t: with foreign keys enforced the rows are deleted first and
\* the ON DELETE actions of the tables whose key names t run
DropTable(d, t, enforce) ==
  [cols |-> [d.cols EXCEPT ![t] = {}],
   rows |-> [x \in AllTables |->
              IF x = t THEN {}
              ELSE IF enforce /\ x \in FkTables THEN AfterParentDelete(d, x, t)
              ELSE d.rows[x]],
   check |-> IF t \in DOMAIN d.check THEN [d.check EXCEPT ![t] = "none"] ELSE d.check,
   fk |-> IF t \in FkTables THEN [d.fk EXCEPT ![t] = "none"] ELSE d.fk,
   idx |-> {i \in d.idx : i[2] # t}]

\* CREATE INDEX IF NOT EXISTS name ON t: nothing when an index of that name exists
CreateIndexes(d, t, names) ==
  [d EXCEPT !.idx = d.idx \cup {<<n, t>> : n \in {m \in names : \A i \in d.idx : i[1] # m}}]

\* ALTER TABLE t ADD COLUMN c ... for each c of a set: old rows get the default
\* an ADD COLUMN that resets the required columns already present
AddColumns_reset(d, t, added) ==
  [d EXCEPT !.cols[t] = d.cols[t] \cup added,
            !.rows[t] = {[c \in d.cols[t] \cup added |->
                            IF c \in d.cols[t] \ MigrateCols(t) THEN r[c] ELSE AddDefault(t, c)]
                          : r \in d.rows[t]}]
AddColumns(d, t, added) ==
  [d EXCEPT !.cols[t] = d.cols[t] \cup added,
            !.rows[t] = {[c \in d.cols[t] \cup added |->
                            IF c \in d.cols[t] THEN r[c] ELSE AddDefault(t, c)]
                          : r \in d.rows[t]}]

\* UPDATE t SET c = now WHERE c IS NULL OR c = ''  for each c of a set
Stamp(d, t, stamped, now) ==
  [d EXCEPT !.rows[t] = {[c \in DOMAIN r |->
                            IF c \in stamped /\ (r[c] = NULL \/ r[c] = EMPTY)
                            THEN now ELSE r[c]]
                          : r \in d.rows[t]}]

\* a unique index cannot be built: two rows agree on a key without NULLs
HasDuplicates(d, t, key) ==
  \E r1, r2 \in d.rows[t] :
     r1 # r2 /\ \A c \in key : r1[c] # NULL /\ r1[c] = r2[c]

\* the DEFAULT of a column of the fresh table of a rebuild
RebuildDefault(t, c) ==
  CASE t = "users" /\ c = "must_change_password" -> 0
    [] t = "users" /\ c = "approved" -> 1
    [] t = "auth_logs" /\ c = "success" -> 1
    [] OTHER -> NULL
\* the NOT NULL columns of the fresh table of a rebuild
RebuildNotNull(t) ==
  IF t = "users"
  THEN {"fullname", "nickname", "password", "role", "must_change_password", "approved"}
  ELSE {"action", "success", "created_at_utc"}

\* _copy_table_data: the rows INSERT INTO dst (common) SELECT common FROM src adds
CopiedRows(d, src, dst) ==
  LET common == _get_columns(d, src) \cap _get_columns(d, dst)
  IN IF common = {} THEN {}
     ELSE {[c \in d.cols[dst] |-> IF c \in common THEN r[c] ELSE RebuildDefault(dst, c)]
             : r \in d.rows[src]}
_copy_table_data(d, src, dst) ==
  [d EXCEPT !.rows[dst] = d.rows[dst] \cup CopiedRows(d, src, dst)]
\* the INSERT raises IntegrityError: a NOT NULL column would receive NULL
CopyViolatesNotNull(d, src, dst) ==
  \E r \in CopiedRows(d, src, dst) : \E c \in RebuildNotNull(dst) : r[c] = NULL

\* ------------------------------------------------------------ stores at start
EmptyStore ==
  [cols |-> [t \in AllTables |-> {}],
   rows |-> [t \in AllTables |-> {}],
   check |-> [t \in {"users", "users_old"} |-> "none"],
   fk |-> [t \in FkTables |-> "none"],
   idx |-> {}]

Restrict(r, columns) == [c \in columns |-> r[c]]

UserRow(id, role, active, approved, created) ==
  [id |-> id, fullname |-> 100 + id, nickname |-> 200 + id, password |-> 300 + id,
   role |-> role, must_change_password |-> 0, approved |-> approved,
   active |-> active, approved_by |-> NULL, approved_at_utc |-> NULL,
   created_at_utc |-> created,
   q1 |-> NULL, a1 |-> NULL, q2 |-> NULL, a2 |-> NULL, q3 |-> NULL, a3 |-> NULL]
AuthLogRow(id, uid, created) ==
  [id |-> id, user_id |-> uid, nickname |-> NULL, fullname |-> NULL, role |-> NULL,
   action |-> 1, success |-> 1, ip |-> NULL, user_agent |-> NULL, details |-> NULL,
   created_at_utc |-> created]
SalesLogRow(id, uid, created) ==
  [id |-> id, user_id |-> uid, sale_id |-> NULL, action |-> 1, details |-> NULL,
   ip |-> NULL, user_agent |-> NULL, created_at_utc |-> created]
ReportRow(id, uid) ==
  [id |-> id, report_type |-> 1, date_key |-> id, created_by |-> uid,
   created_at_utc |-> RECENT]
RewardRow(id, uid) ==
  [id |-> id, year |-> 2024, month |-> id, scope |-> 1, user_id |-> uid,
   total_monthly |-> 0, percent |-> 0, reduced_total |-> 0, manual_amount |-> 0,
   computed_amount |-> 0, created_at_utc |-> RECENT]
AirlineRow(id, code) ==
  [id |-> id, name |-> id, code |-> code, country |-> NULL, active |-> 1,
   created_at_utc |-> RECENT, updated_at_utc |-> RECENT]
\* a sales row with no fee data; the shapes below fill in the legacy columns
BlankSale(id) ==
  [c \in SalesCols |->
     CASE c = "id" -> id
       [] c = "airline_id" -> 1
       [] c = "sold_at_utc" -> RECENT
       [] OTHER -> AddDefault("sales", c)]
FlatSale(id, name, amount, qty) ==
  [BlankSale(id) EXCEPT !["fee_name"] = name, !["amount"] = amount,
                        !["quantity"] = qty, !["fee_id"] = 1]
SlotSale(id, n1, a1, q1, n2, a2, q2, tq, ta) ==
  [BlankSale(id) EXCEPT !["airline_fee_name"] = n1, !["airline_amount"] = a1,
                        !["airline_qty"] = q1, !["airport_fee_name"] = n2,
                        !["airport_amount"] = a2, !["airport_qty"] = q2,
                        !["ticket_qty"] = tq, !["ticket_amount"] = ta]
SaleItemRow(id, sale, source, name, amount, qty, created) ==
  [id |-> id, sale_id |-> sale, fee_source |-> source, fee_id |-> 1, fee_key |-> EMPTY,
   fee_name |-> name, amount |-> amount, currency |-> EUR, quantity |-> qty,
   total_amount |-> amount * qty, created_at_utc |-> created]

\* historical column sets of users
UsersShapes == {"base", "active", "approved", "full"}
UsersShapeCols(u) ==
  CASE u = "base" -> UsersBaseCols
    [] u = "active" -> UsersBaseCols \cup {"active"}
    [] u = "approved" -> UsersBaseCols \cup {"approved"}
    [] OTHER -> UsersCols
\* which dependents of users the store already holds
DepShapes == {"none", "auth", "all", "repointed"}
MinimalAuthLogsCols == {"id", "user_id", "action", "created_at_utc"}
MinimalSalesLogsCols == {"id", "user_id", "sale_id", "action", "created_at_utc"}
SalesShapes == {"none", "legacy"}

WithUsers(d, u, chk) ==
  [d EXCEPT !.cols["users"] = UsersShapeCols(u),
            !.check["users"] = chk,
            !.rows["users"] =
               {Restrict(UserRow(1, User, 0, IF u = "approved" THEN NULL ELSE 0, RECENT),
                         UsersShapeCols(u)),
                Restrict(UserRow(2, Admin, 1, 1, NULL), UsersShapeCols(u))}]

WithDependents(d, dep) ==
  CASE dep = "none" -> d
    [] dep = "auth" ->
         [d EXCEPT !.cols["auth_logs"] = MinimalAuthLogsCols,
                   !.fk["auth_logs"] = "users",
                   !.idx = {<<"idx_auth_logs_user", "auth_logs">>},
                   !.rows["auth_logs"] =
                      {Restrict(AuthLogRow(1, 1, RECENT), MinimalAuthLogsCols),
                       Restrict(AuthLogRow(2, 2, RECENT), MinimalAuthLogsCols)}]
    [] dep = "repointed" ->
         [d EXCEPT !.cols["auth_logs"] = AuthLogsCols,
                   !.fk["auth_logs"] = "users_old",
                   !.idx = {<<n, "auth_logs">> : n \in IndexNames("auth_logs")},
                   !.rows["auth_logs"] = {AuthLogRow(1, 1, RECENT), AuthLogRow(2, 2, OLD)}]
    [] OTHER ->
         [d EXCEPT !.cols["auth_logs"] = AuthLogsCols,
                   !.cols["sales_logs"] = MinimalSalesLogsCols,
                   !.cols["report_snapshots"] = CreateCols("report_snapshots"),
                   !.cols["variable_rewards_snapshots"] = CreateCols("variable_rewards_snapshots"),
                   !.fk = [t \in FkTables |-> IF t = "auth_logs_old" THEN "none" ELSE "users"],
                   !.idx = {<<n, "auth_logs">> : n \in IndexNames("auth_logs")},
                   !.rows["auth_logs"] = {AuthLogRow(1, 1, RECENT), AuthLogRow(2, 2, OLD)},
                   !.rows["sales_logs"] =
                      {Restrict(SalesLogRow(1, 1, RECENT), MinimalSalesLogsCols),
                       Restrict(SalesLogRow(2, 2, RECENT), MinimalSalesLogsCols)},
                   !.rows["report_snapshots"] = {ReportRow(1, 1)},
                   !.rows["variable_rewards_snapshots"] = {RewardRow(1, 2)}]

WithSales(d, s) ==
  IF s = "none" THEN d
  ELSE [d EXCEPT !.cols["airlines"] = CreateCols("airlines"),
                 !.cols["sales"] = SalesCols,
                 !.cols["sale_items"] = SaleItemsCols,
                 !.rows["airlines"] = {AirlineRow(1, 7)},
                 !.rows["sales"] =
                    {FlatSale(1, 5, 10, 2),
                     SlotSale(2, 6, 5, 1, 7, 3, 4, 0, 0),
                     FlatSale(3, 5, 4, 1),
                     BlankSale(4)},
                 !.rows["sale_items"] = {SaleItemRow(1, 3, AirlineSource, 5, 4, 1, RECENT)}]

LegacyStore(u, chk, dep, s) == WithSales(WithDependents(WithUsers(EmptyStore, u, chk), dep), s)

InitialStores ==
  {EmptyStore} \cup
  {LegacyStore(x[1], x[2], x[3], x[4]) :
     x \in {y \in UsersShapes \X {"old", "new"} \X DepShapes \X SalesShapes :
              y[3] = "repointed" => y[2] = "new"}}

\* ------------------------------------------------ stores for the backfill
\* the legacy fee data of one childless sales row: flat name and quantity,
\* airline slot name and quantity, airport slot name, ticket quantity
FlatNames == {EMPTY, 5}
FlatQtys == {0, 2}
AirlineNames == {NULL, 6}
AirlineQtys == {0, 1}
AirportNames == {NULL, 7}
TicketQtys == {0, 2}
LegacySale(id, fn, q, an, aq, pn, tq) ==
  [BlankSale(id) EXCEPT !["fee_name"] = fn, !["amount"] = 10, !["quantity"] = q,
                        !["airline_fee_name"] = an, !["airline_amount"] = 5,
                        !["airline_qty"] = aq, !["airport_fee_name"] = pn,
                        !["airport_amount"] = 3, !["airport_qty"] = 4,
                        !["ticket_qty"] = tq, !["ticket_amount"] = 9]
WithSale(d, r) == [d EXCEPT !.rows["sales"] = @ \cup {r}]
BackfillStores ==
  {WithSale(LegacyStore("active", "old", "all", "legacy"),
            LegacySale(5, x[1], x[2], x[3], x[4], x[5], x[6])) :
     x \in {y \in FlatNames \X FlatQtys \X AirlineNames \X AirlineQtys
                  \X AirportNames \X TicketQtys :
              y[3] = NULL => y[4] = 1}}

\* a legacy sales table that has the slot names but not yet the slot-specific
\* amount columns: the shared amount column is the only amount of a row
SlotAmountCols == {"airline_amount", "airport_amount"}
WithoutSlotAmounts(d) ==
  [d EXCEPT !.cols["sales"] = @ \ SlotAmountCols,
            !.rows["sales"] = {Restrict(r, DOMAIN r \ SlotAmountCols) : r \in @}]
SharedAmountStores ==
  {WithoutSlotAmounts(WithSale(LegacyStore("active", "old", "all", "legacy"),
                               LegacySale(5, EMPTY, 2, x[1], 1, x[2], x[3]))) :
     x \in {y \in AirlineNames \X AirportNames \X TicketQtys :
              y[1] # NULL \/ y[2] # NULL}}

\* a flat legacy sale of a plane ticket: fee_source 'ticket' with its own
\* key and name
TicketSaleStores ==
  {WithSale(LegacyStore("active", "old", "all", "legacy"),
            [LegacySale(5, 5, q, NULL, 1, NULL, 0) EXCEPT !["fee_source"] = TicketSource,
                                                          !["fee_key"] = 8]) :
     q \in FlatQtys}

\* ------------------------------------------- stores with duplicate keys
\* legacy tables filled before their unique index existed
DupTables == {"airlines", "report_snapshots"}
WithDuplicate(d, t) ==
  IF t = "airlines"
  THEN [d EXCEPT !.rows["airlines"] = @ \cup {AirlineRow(2, 7)}]
  ELSE [d EXCEPT !.rows["report_snapshots"] =
                    @ \cup {[ReportRow(2, 1) EXCEPT !["date_key"] = 1]}]
DupStores ==
  {WithDuplicate(LegacyStore(u, "old", "all", "legacy"), t) :
     u \in UsersShapes, t \in DupTables}

\* ------------------------------------------------------------- backups
\* the retention count of the backup rotator
KeepBackups == 30
\* the filesystem operations of _backup_db_on_startup, one of which may fail
Faults == {"none", "makedirs", "copy", "listdir", "remove"}
\* a backups directory filled by earlier starts of the application
FullBackups == {Now(0) - k : k \in 1..KeepBackups}
\* no store file yet / a store file with or without earlier backups
NoFile == [exists |-> FALSE, dir |-> FALSE, backups |-> {}]
InitialFiles(d) ==
  IF d = EmptyStore THEN {NoFile}
  ELSE {[exists |-> TRUE, dir |-> FALSE, backups |-> {}],
        [exists |-> TRUE, dir |-> TRUE, backups |-> FullBackups]}

\* the pruning taking the newest files instead of the oldest
OldestRemoved_newest(files, excess) ==
  {f \in files : Cardinality({g \in files : g > f}) >= excess}
\* files.sort(); for f in files[:excess]: os.remove(f)
OldestRemoved(files, excess) ==
  {f \in files : Cardinality({g \in files : g < f}) >= excess}

\* os.makedirs is outside every try block: its OSError leaves init_db
BackupRaises(f, flt) == f.exists /\ ~f.dir /\ flt = "makedirs"

\* the files after _backup_db_on_startup returned; now names the new copy
_backup_db_on_startup(f, flt, now) ==
  IF ~f.exists THEN f
  ELSE LET copied == IF flt = "copy" THEN f.backups ELSE f.backups \cup {now}
           excess == Cardinality(copied) - KeepBackups
           kept == IF flt \in {"listdir", "remove"} \/ excess <= 0 THEN copied
                   ELSE OldestRemoved(copied, excess)
       IN [f EXCEPT !.dir = TRUE, !.backups = kept]

\* ------------------------------------------------------------------- state
VARIABLES
  db,         \* the store as the connection sees it
  committed,  \* the store as the file holds it (what a rollback restores)
  inTxn,      \* the connection has an implicit transaction open
  fkOn,       \* PRAGMA foreign_keys of the connection
  pc,         \* the statement init_db is about to execute ("idle": not running)
  ret,        \* where _rebuild_auth_logs returns to
  run,        \* init_db calls started so far
  crashes,    \* process deaths so far
  outcome,    \* how the last init_db call ended: none, ok, error, crashed
  h,          \* history: stores remembered for comparison
  fs,         \* the store file and the sibling backups directory
  fault,      \* the filesystem operation that fails in this environment
  app,        \* what the callers of the key-value operations have seen
  conn,       \* the connections opened and not closed; how the runtime finalizes
  web         \* the browsers' session cookies and the requests in progress

vars == <<db, committed, inTxn, fkOn, pc, ret, run, crashes, outcome, h, fs, fault, app, conn, web>>

\* statements of _rebuild_users_table_if_needed and _rebuild_auth_logs
UsersRebuildPcs ==
  {"rb_fk_off", "rb_rename", "rb_create", "rb_copy", "rb_backfill",
   "rb_repair_check", "rb_drop", "rb_fk_on"}
AuthRebuildPcs ==
  {"ra_fk_off", "ra_rename", "ra_create", "ra_copy", "ra_drop", "ra_indexes",
   "ra_fk_on"}
\* positions at which the shadow of users / of auth_logs exists
UsersShadowSpan ==
  {"rb_create", "rb_copy", "rb_backfill", "rb_repair_check", "rb_drop"}
AuthShadowSpan == {"ra_create", "ra_copy", "ra_drop", "ra_indexes"}

InShadowSpan ==
  \/ pc \in UsersShadowSpan \cup AuthShadowSpan
  \/ pc \in AuthRebuildPcs /\ ret = "rb_drop"

\* the tables init_db creates and migrates after app_state, in its order
TableOrder ==
  <<"notification_emails", "notification_templates", "notification_logs",
    "report_snapshots", "variable_rewards_snapshots", "airlines",
    "airline_fees", "airline_destinations", "airport_service_fees", "sales",
    "sale_items">>
TablePcs == {TableOrder[i] : i \in 1..Len(TableOrder)}
IndexOfTable(t) == CHOOSE i \in 1..Len(TableOrder) : TableOrder[i] = t
AfterTable(t) ==
  IF IndexOfTable(t) = Len(TableOrder) THEN "backfill"
  ELSE TableOrder[IndexOfTable(t) + 1]

\* the keys and values the callers of the key-value operations use
Keys == 1..MaxKey
Values == 1..MaxValue
NoGet == [key |-> 0, value |-> NULL]
\* text code of the nickname 'Admin'
AdminNick == 200

\* the state before the first call of init_db
\* ------------------------------------------------------ the web sessions
\* the browsers that hold a session cookie
Browsers == {1, 2}
\* the popup notifications; item i is appended by the i-th enqueuing request
Items == {1, 2}
\* the sids that login issues are 1..MaxLogins
MaxLogins == 2
\* text codes of the keys 'active_session_id' and 'notifications_popup_queue'
ActiveSessionKey == 1
PopupQueueKey == 2
\* the text of a JSON list, '[]' included, is not the empty text
JsonList == 100
\* json.dumps(items): the text whose i-th binary digit tells that item i is
\* in the list
json_dumps(items) ==
  CHOOSE raw \in JsonList..(JsonList + 2 ^ Cardinality(Items) - 1) :
    \A i \in Items : i \in items <=> ((raw - JsonList) \div (2 ^ (i - 1))) % 2 = 1
\* session.clear() / a browser without session
NoCookie == [sid |-> 0, popup |-> {}]
IdleRequest == [at |-> "idle", ep |-> "none", why |-> "none", seen |-> {}]
\* the process starts: the requests in progress are gone, cookies and store stay
Restarted(w) ==
  [w EXCEPT !.req = [b \in Browsers |-> IdleRequest],
            !.enq = [e \in Items |->
                       IF w.enq[e].at = "done" THEN w.enq[e]
                       ELSE [at |-> "idle", seen |-> {}]]]

\* get_connection opens a connection (open + 1). `with conn` exits and the
\* function returns or raises: the context manager commits or rolls back
\* and closes nothing, the finalizer closes, and the
\* runtime finalizes a connection nobody refers to any more at once
\* ("refcount") or at some later collection ("deferred")
Left(c) == IF c.gc = "refcount" THEN [c EXCEPT !.open = @ - 1] ELSE c

BootWith(stores, faults, finalizers) ==
  /\ conn \in [open : {0}, gc : finalizers]
  /\ web = [cookie |-> [b \in Browsers |-> NoCookie],
            req |-> [b \in Browsers |-> IdleRequest],
            enq |-> [e \in Items |-> [at |-> "idle", seen |-> {}]],
            sids |-> 0,
            handed |-> [i \in Items |-> 0]]
  /\ db \in stores
  /\ committed = db
  /\ inTxn = FALSE
  /\ fkOn = TRUE
  /\ pc = "idle"
  /\ ret = "none"
  /\ run = 0
  /\ crashes = 0
  /\ outcome = "none"
  /\ h = [pre |-> db, preOk |-> FALSE, rebuilt |-> FALSE, rbPre |-> db,
          intSpan |-> FALSE, intPre |-> db, raisedIn |-> "none",
          repaired |-> FALSE, raPre |-> db, preFs |-> NoFile,
          added |-> FALSE, backfilled |-> FALSE, renames |-> 0]
  /\ fs \in InitialFiles(db)
  /\ fault \in faults
  /\ app = [kv |-> [k \in Keys |-> NULL], got |-> NoGet, ops |-> 0,
            last |-> "none", admins |-> 0]
Boot(stores, faults) == BootWith(stores, faults, {"refcount"})

Init == Boot(InitialStores, {"none"})

\* a DDL statement outside a transaction is written through; inside one it
\* stays pending, as does every INSERT, UPDATE and DELETE
Ddl(d) ==
  /\ db' = d
  /\ committed' = IF inTxn THEN committed ELSE d
  /\ UNCHANGED inTxn
Dml(d) ==
  /\ db' = d
  /\ inTxn' = TRUE
  /\ UNCHANGED committed
\* statements followed by conn.commit()
Committed(d) ==
  /\ db' = d
  /\ committed' = d
  /\ inTxn' = FALSE

\* the exception caught inside _migrate_users_table, init_db going on
RaiseFrom_swallowed(d, where) ==
  /\ db' = d
  /\ committed' = d
  /\ inTxn' = FALSE
  /\ pc' = "auth_create"
  /\ ret' = "none"
  /\ h' = [h EXCEPT !.raisedIn = where]
  /\ UNCHANGED <<fkOn, run, fs, fault, conn, web, app, crashes, outcome>>
\* a statement raises: the exception leaves init_db through `with conn`,
\* which rolls the pending transaction back; nothing restores the pragma
RaiseFrom(d, where) ==
  /\ db' = d
  /\ committed' = d
  /\ inTxn' = FALSE
  /\ pc' = "idle"
  /\ ret' = "none"
  /\ outcome' = "error"
  /\ h' = [h EXCEPT !.raisedIn = where,
                    !.intSpan = h.intSpan \/ InShadowSpan,
                    !.intPre = IF h.intSpan THEN h.intPre ELSE h.pre]
  /\ conn' = Left(conn)
  /\ UNCHANGED <<fkOn, run, fs, fault, app, crashes, web>>
Raise(where) == RaiseFrom(committed, where)

\* init_db is called: _backup_db_on_startup, then get_connection, which
\* creates the store file if it is absent
StartInitDb ==
  /\ pc = "idle"
  /\ run < MaxRuns
  /\ run' = run + 1
  /\ IF BackupRaises(fs, fault)
     THEN /\ pc' = "idle"
          /\ outcome' = "error"
          /\ h' = [h EXCEPT !.pre = db, !.preOk = FALSE, !.rebuilt = FALSE,
                            !.rbPre = db, !.raisedIn = "none", !.repaired = FALSE,
                            !.raPre = db, !.preFs = fs, !.added = FALSE, !.backfilled = FALSE]
          /\ UNCHANGED <<fkOn, fs, conn, web>>
     ELSE /\ pc' = "create_users"
          /\ conn' = [conn EXCEPT !.open = @ + 1]
          /\ outcome' = "none"
          /\ fkOn' = TRUE
          /\ fs' = [_backup_db_on_startup(fs, fault, Now(run + 1)) EXCEPT !.exists = TRUE]
          /\ h' = [h EXCEPT !.pre = db, !.preOk = (outcome = "ok"), !.rebuilt = FALSE,
                            !.rbPre = db, !.raisedIn = "none", !.repaired = FALSE,
                            !.raPre = db, !.preFs = fs, !.added = FALSE, !.backfilled = FALSE,
                            !.intSpan = IF outcome = "ok" THEN FALSE ELSE h.intSpan]
  /\ web' = Restarted(web)
  /\ UNCHANGED <<db, committed, inTxn, ret, crashes, fault, app>>

\* CREATE TABLE IF NOT EXISTS users; commit
CreateUsers ==
  /\ pc = "create_users"
  /\ Committed(CreateTable(db, "users", UsersCols, "new"))
  /\ pc' = "rb_check"
  /\ UNCHANGED <<fkOn, ret, run, fs, fault, conn, web, app, crashes, outcome, h>>

\* _rebuild_users_table_if_needed up to the decision
RebuildCheck ==
  /\ pc = "rb_check"
  /\ pc' = IF _table_exists(db, "users") /\ needs_rebuild(db)
           THEN "rb_fk_off" ELSE "add_cols"
  /\ UNCHANGED <<db, committed, inTxn, fkOn, ret, run, fs, fault, conn, web, app, crashes, outcome, h>>

\* PRAGMA foreign_keys = OFF; commit
RbFkOff ==
  /\ pc = "rb_fk_off"
  /\ fkOn' = IF inTxn THEN fkOn ELSE FALSE
  /\ Committed(db)
  /\ pc' = "rb_rename"
  /\ h' = [h EXCEPT !.rebuilt = TRUE, !.rbPre = db]
  /\ UNCHANGED <<ret, run, fs, fault, conn, web, app, crashes, outcome>>

\* ALTER TABLE users RENAME TO users_old
RbRename ==
  /\ pc = "rb_rename"
  /\ IF _table_exists(db, "users_old")
     THEN Raise("users")
     ELSE /\ Ddl(RenameTable(db, "users", "users_old"))
          /\ pc' = "rb_create"
          /\ h' = [h EXCEPT !.renames = @ + 1]
          /\ UNCHANGED <<fkOn, ret, run, fs, fault, conn, web, app, crashes, outcome>>

\* CREATE TABLE IF NOT EXISTS users with the rebuild's definition
RbCreate ==
  /\ pc = "rb_create"
  /\ Ddl(CreateTable(db, "users", RebuildUsersCols, RebuildUsersCheck))
  /\ pc' = "rb_copy"
  /\ UNCHANGED <<fkOn, ret, run, fs, fault, conn, web, app, crashes, outcome, h>>

\* _copy_table_data(conn, "users_old", "users")
RbCopy ==
  /\ pc = "rb_copy"
  /\ IF CopyViolatesNotNull(db, "users_old", "users")
     THEN Raise("users")
     ELSE /\ Dml(_copy_table_data(db, "users_old", "users"))
          /\ pc' = "rb_backfill"
          /\ UNCHANGED <<fkOn, ret, run, fs, fault, conn, web, app, crashes, outcome, h>>

\* UPDATE users SET approved = 1 WHERE approved IS NULL
ApproveNulls(d) ==
  [d EXCEPT !.rows["users"] =
     {IF "approved" \in DOMAIN r /\ r["approved"] = NULL
      THEN [r EXCEPT !["approved"] = 1] ELSE r : r \in d.rows["users"]}]

\* the two backfill UPDATEs; commit
RbBackfill ==
  /\ pc = "rb_backfill"
  /\ Committed(ApproveNulls(Stamp(db, "users", {"created_at_utc"}, Now(run))))
  /\ pc' = "rb_repair_check"
  /\ UNCHANGED <<fkOn, ret, run, fs, fault, conn, web, app, crashes, outcome, h>>

\* if _auth_logs_references_users_old(conn): _rebuild_auth_logs(conn)
RbRepairCheck ==
  /\ pc = "rb_repair_check"
  /\ IF _auth_logs_references_users_old(db)
     THEN pc' = "ra_fk_off" /\ ret' = "rb_drop"
     ELSE pc' = "rb_drop" /\ ret' = ret
  /\ UNCHANGED <<db, committed, inTxn, fkOn, run, fs, fault, conn, web, app, crashes, outcome, h>>

\* DROP TABLE users_old; commit
RbDrop ==
  /\ pc = "rb_drop"
  /\ IF ~_table_exists(db, "users_old")
     THEN Raise("users")
     ELSE /\ Committed(DropTable(db, "users_old", fkOn))
          /\ pc' = "rb_fk_on"
          /\ UNCHANGED <<fkOn, ret, run, fs, fault, conn, web, app, crashes, outcome, h>>

\* PRAGMA foreign_keys = ON; commit
RbFkOn ==
  /\ pc = "rb_fk_on"
  /\ fkOn' = IF inTxn THEN fkOn ELSE TRUE
  /\ Committed(db)
  /\ pc' = "add_cols"
  /\ UNCHANGED <<ret, run, fs, fault, conn, web, app, crashes, outcome, h>>

\* ---------------------------------------------------- _rebuild_auth_logs
\* PRAGMA foreign_keys = OFF; commit
RaFkOff ==
  /\ pc = "ra_fk_off"
  /\ fkOn' = IF inTxn THEN fkOn ELSE FALSE
  /\ Committed(db)
  /\ pc' = "ra_rename"
  /\ h' = [h EXCEPT !.raPre = db]
  /\ UNCHANGED <<ret, run, fs, fault, conn, web, app, crashes, outcome>>

\* ALTER TABLE auth_logs RENAME TO auth_logs_old
RaRename ==
  /\ pc = "ra_rename"
  /\ IF _table_exists(db, "auth_logs_old")
     THEN Raise("auth_logs")
     ELSE /\ Ddl(RenameTable(db, "auth_logs", "auth_logs_old"))
          /\ pc' = "ra_create"
          /\ UNCHANGED <<fkOn, ret, run, fs, fault, conn, web, app, crashes, outcome, h>>

\* CREATE TABLE IF NOT EXISTS auth_logs ... REFERENCES users(id)
RaCreate ==
  /\ pc = "ra_create"
  /\ Ddl(CreateTable(db, "auth_logs", AuthLogsCols, "none"))
  /\ pc' = "ra_copy"
  /\ UNCHANGED <<fkOn, ret, run, fs, fault, conn, web, app, crashes, outcome, h>>

\* _copy_table_data(conn, "auth_logs_old", "auth_logs")
RaCopy ==
  /\ pc = "ra_copy"
  /\ IF CopyViolatesNotNull(db, "auth_logs_old", "auth_logs")
     THEN Raise("auth_logs")
     ELSE /\ Dml(_copy_table_data(db, "auth_logs_old", "auth_logs"))
          /\ pc' = "ra_drop"
          /\ UNCHANGED <<fkOn, ret, run, fs, fault, conn, web, app, crashes, outcome, h>>

\* DROP TABLE auth_logs_old
RaDrop ==
  /\ pc = "ra_drop"
  /\ Ddl(DropTable(db, "auth_logs_old", fkOn))
  /\ pc' = "ra_indexes"
  /\ UNCHANGED <<fkOn, ret, run, fs, fault, conn, web, app, crashes, outcome, h>>

\* the two CREATE INDEX IF NOT EXISTS; commit
RaIndexes ==
  /\ pc = "ra_indexes"
  /\ Committed(CreateIndexes(db, "auth_logs", IndexNames("auth_logs")))
  /\ pc' = "ra_fk_on"
  /\ UNCHANGED <<fkOn, ret, run, fs, fault, conn, web, app, crashes, outcome, h>>

\* PRAGMA foreign_keys = ON; commit; return
RaFkOn ==
  /\ pc = "ra_fk_on"
  /\ fkOn' = IF inTxn THEN fkOn ELSE TRUE
  /\ Committed(db)
  /\ pc' = ret
  /\ ret' = "none"
  /\ h' = [h EXCEPT !.repaired = TRUE]
  /\ UNCHANGED <<run, fs, fault, conn, web, app, crashes, outcome>>

\* ------------------------------------------------- the rest of init_db
\* UPDATE users SET approved = 1; stamp approved_at_utc (only when approved was added)
ApproveAll(d, now) ==
  Stamp([d EXCEPT !.rows["users"] = {[r EXCEPT !["approved"] = 1] : r \in d.rows["users"]}],
        "users", {"approved_at_utc"}, now)

\* the migration approving every account whether or not approved was added
_migrate_users_columns_approving(d, now) ==
  LET cols == _get_columns(d, "users")
      d1 == AddColumns(d, "users", MigrateCols("users") \ cols)
  IN ApproveAll(Stamp(d1, "users", StampCols("users"), now), now)
\* _migrate_users_table after the rebuild: add the missing columns, stamp
_migrate_users_columns(d, now) ==
  LET cols == _get_columns(d, "users")
      d1 == AddColumns(d, "users", MigrateCols("users") \ cols)
      d2 == Stamp(d1, "users", StampCols("users"), now)
  IN IF "approved" \notin cols THEN ApproveAll(d2, now) ELSE d2

MigrateUsersAdd ==
  /\ pc = "add_cols"
  /\ Committed(_migrate_users_columns(db, Now(run)))
  /\ pc' = "auth_create"
  /\ h' = [h EXCEPT !.added = TRUE]
  /\ UNCHANGED <<fkOn, ret, run, fs, fault, conn, web, app, crashes, outcome>>

\* _migrate_auth_logs_table: create if absent, indexes, commit
AuthCreate ==
  /\ pc = "auth_create"
  /\ Committed(CreateIndexes(CreateTable(db, "auth_logs", AuthLogsCols, "none"),
                             "auth_logs", IndexNames("auth_logs")))
  /\ pc' = "auth_repair_check"
  /\ UNCHANGED <<fkOn, ret, run, fs, fault, conn, web, app, crashes, outcome, h>>

\* _migrate_auth_logs_table: if broken, rebuild it
AuthRepairCheck ==
  /\ pc = "auth_repair_check"
  /\ IF _auth_logs_references_users_old(db)
     THEN pc' = "ra_fk_off" /\ ret' = "sales_logs"
     ELSE pc' = "sales_logs" /\ ret' = ret
  /\ UNCHANGED <<db, committed, inTxn, fkOn, run, fs, fault, conn, web, app, crashes, outcome, h>>

\* _migrate_sales_logs_table
MigrateSalesLogs ==
  /\ pc = "sales_logs"
  /\ Committed(CreateIndexes(CreateTable(db, "sales_logs", SalesLogsCols, "none"),
                             "sales_logs", IndexNames("sales_logs")))
  /\ pc' = "cleanup"
  /\ UNCHANGED <<fkOn, ret, run, fs, fault, conn, web, app, crashes, outcome, h>>

\* DELETE FROM t WHERE date(created_at_utc) < date('now','-60 day')
DeleteOld(d, t) ==
  [d EXCEPT !.rows[t] = {r \in d.rows[t] : r["created_at_utc"] # OLD}]

\* the cleanup without its except clause
Cleanup_unguarded ==
  /\ pc = "cleanup"
  /\ IF \E t \in {"auth_logs", "sales_logs", "notification_logs"} : ~_table_exists(db, t)
     THEN Raise("none")
     ELSE /\ Committed(DeleteOld(DeleteOld(DeleteOld(db, "auth_logs"), "sales_logs"),
                                 "notification_logs"))
          /\ pc' = "app_state"
          /\ UNCHANGED <<fkOn, ret, run, fs, fault, conn, web, app, crashes, outcome, h>>
\* _cleanup_old_activity_logs: the first DELETE on an absent table raises
\* sqlite3.Error, which is swallowed before the commit
Cleanup ==
  /\ pc = "cleanup"
  /\ IF ~_table_exists(db, "auth_logs")
     THEN UNCHANGED <<db, committed, inTxn>>
     ELSE IF ~_table_exists(db, "sales_logs")
     THEN Dml(DeleteOld(db, "auth_logs"))
     ELSE IF ~_table_exists(db, "notification_logs")
     THEN Dml(DeleteOld(DeleteOld(db, "auth_logs"), "sales_logs"))
     ELSE Committed(DeleteOld(DeleteOld(DeleteOld(db, "auth_logs"), "sales_logs"),
                              "notification_logs"))
  /\ pc' = "app_state"
  /\ UNCHANGED <<fkOn, ret, run, fs, fault, conn, web, app, crashes, outcome, h>>

\* CREATE TABLE IF NOT EXISTS app_state; commit
CreateAppState ==
  /\ pc = "app_state"
  /\ Committed(CreateTable(db, "app_state", CreateCols("app_state"), "none"))
  /\ pc' = TableOrder[1]
  /\ UNCHANGED <<fkOn, ret, run, fs, fault, conn, web, app, crashes, outcome, h>>

\* the stamping UPDATEs of these migrations are still pending when the
\* unique index is created
StampPending(t) ==
  t \in {"notification_emails", "notification_templates", "report_snapshots"}
\* the indexes a migration creates before its unique index
IndexesBeforeUnique(t) ==
  CASE t = "variable_rewards_snapshots" ->
         {"idx_var_rewards_year_month", "idx_var_rewards_user"}
    [] t = "airline_fees" -> {"idx_fees_airline"}
    [] t = "airline_destinations" ->
         {"idx_destinations_airline", "idx_destinations_active"}
    [] OTHER -> {}

\* CREATE TABLE IF NOT EXISTS t; commit; _migrate_<t>_table(conn)
CreateAndMigrate ==
  /\ pc \in TablePcs
  /\ LET t == pc
         d1 == CreateTable(db, t, CreateCols(t), "none")
         d2 == AddColumns(d1, t, MigrateCols(t) \ _get_columns(d1, t))
         d3 == Stamp(d2, t, StampCols(t), Now(run))
         d4 == CreateIndexes(d3, t, IndexesBeforeUnique(t))
     IN IF /\ UniqueKey(t) # {}
           /\ \A i \in d4.idx : i[1] # UniqueIndexName(t)
           /\ HasDuplicates(d4, t, UniqueKey(t))
        THEN RaiseFrom(IF StampPending(t) THEN d2 ELSE d4, "none")
        ELSE /\ Committed(CreateIndexes(d4, t, IndexNames(t)))
             /\ pc' = AfterTable(t)
             /\ UNCHANGED <<fkOn, ret, run, fs, fault, conn, web, app, crashes, outcome, h>>

\* ------------------------------------------------------------- backfill
\* r_dict.get(c)
RowGet(r, c) == IF c \in DOMAIN r THEN r[c] ELSE NULL

\* _airline_label / _label: "<name> (<code>) Plane Ticket", "<name> Plane Ticket"
\* or "Plane Ticket", as a text code
_airline_label(airlines, airline_id) ==
  IF ~Truthy(airline_id) THEN PlaneTicket
  ELSE IF \A a \in airlines : a["id"] # airline_id THEN PlaneTicket
  ELSE LET a == CHOOSE x \in airlines : x["id"] = airline_id
       IN IF Truthy(a["code"]) THEN PlaneTicket + 100 * a["name"] + a["code"]
          ELSE PlaneTicket + 100 * a["name"]

\* the total computed from the raw quantity, without its default
_insert_item_rawqty(sale_id, source, fee_id, fee_key, fee_name, amount, currency, qty, now) ==
  [sale_id |-> sale_id, fee_source |-> source, fee_id |-> OrElse(fee_id, 0),
   fee_key |-> OrElse(fee_key, EMPTY), fee_name |-> OrElse(fee_name, EMPTY),
   amount |-> OrElse(amount, 0), currency |-> OrElse(currency, EUR),
   quantity |-> OrElse(qty, 1), total_amount |-> OrElse(amount, 0) * OrElse(qty, 0),
   created_at_utc |-> now]
\* the values _insert_item binds
_insert_item(sale_id, source, fee_id, fee_key, fee_name, amount, currency, qty, now) ==
  [sale_id |-> sale_id, fee_source |-> source, fee_id |-> OrElse(fee_id, 0),
   fee_key |-> OrElse(fee_key, EMPTY), fee_name |-> OrElse(fee_name, EMPTY),
   amount |-> OrElse(amount, 0), currency |-> OrElse(currency, EUR),
   quantity |-> OrElse(qty, 1), total_amount |-> OrElse(amount, 0) * OrElse(qty, 1),
   created_at_utc |-> now]

\* the items the loop body emits for one childless sales row, in order
ItemsOf(r, cols, airlines, now) ==
  IF "airline_fee_name" \in cols
     /\ (Truthy(RowGet(r, "airline_fee_name")) \/ Truthy(RowGet(r, "airport_fee_name")))
  THEN (IF Truthy(RowGet(r, "airline_fee_name"))
        THEN <<_insert_item(r["id"], AirlineSource,
                 IF "airline_fee_id" \in cols THEN RowGet(r, "airline_fee_id") ELSE 0,
                 IF "airline_fee_key" \in cols THEN RowGet(r, "airline_fee_key") ELSE EMPTY,
                 RowGet(r, "airline_fee_name"),
                 IF "airline_amount" \in cols THEN RowGet(r, "airline_amount")
                                               ELSE RowGet(r, "amount"),
                 EUR,
                 IF "airline_qty" \in cols THEN RowGet(r, "airline_qty") ELSE 1, now)>>
        ELSE <<>>)
       \o
       (IF Truthy(RowGet(r, "airport_fee_name"))
        THEN <<_insert_item(r["id"], AirportSource,
                 IF "airport_fee_id" \in cols THEN RowGet(r, "airport_fee_id") ELSE 0,
                 IF "airport_fee_key" \in cols THEN RowGet(r, "airport_fee_key") ELSE EMPTY,
                 RowGet(r, "airport_fee_name"),
                 IF "airport_amount" \in cols THEN RowGet(r, "airport_amount")
                                               ELSE RowGet(r, "amount"),
                 EUR,
                 IF "airport_qty" \in cols THEN RowGet(r, "airport_qty") ELSE 1, now)>>
        ELSE <<>>)
       \o
       (IF "ticket_qty" \in cols /\ OrElse(RowGet(r, "ticket_qty"), 0) > 0
        THEN <<_insert_item(r["id"], TicketSource, 0, TICKET,
                 _airline_label(airlines, RowGet(r, "airline_id")),
                 IF "ticket_amount" \in cols THEN RowGet(r, "ticket_amount") ELSE 0,
                 EUR, RowGet(r, "ticket_qty"), now)>>
        ELSE <<>>)
  ELSE IF "fee_name" \in cols /\ Truthy(RowGet(r, "fee_name"))
  THEN <<_insert_item(r["id"],
           OrElse(RowGet(r, "fee_source"), AirlineSource),
           IF "fee_id" \in cols THEN RowGet(r, "fee_id") ELSE 0,
           IF "fee_key" \in cols THEN RowGet(r, "fee_key") ELSE EMPTY,
           RowGet(r, "fee_name"),
           IF "amount" \in cols THEN RowGet(r, "amount") ELSE 0,
           IF "currency" \in cols THEN RowGet(r, "currency") ELSE EUR,
           IF "quantity" \in cols THEN RowGet(r, "quantity") ELSE 1, now)>>
  ELSE <<>>

\* AUTOINCREMENT: one more than the largest id
NextId(rows) ==
  IF rows = {} THEN 1
  ELSE 1 + (CHOOSE m \in {r["id"] : r \in rows} : \A r \in rows : r["id"] <= m)

\* INSERT INTO sale_items of the items of a sequence, in order
RECURSIVE InsertItems(_, _, _)
InsertItems(items, rows, itemCols) ==
  IF items = <<>> THEN rows
  ELSE LET it == Head(items)
           row == [c \in itemCols |->
                     IF c = "id" THEN NextId(rows)
                     ELSE IF c \in DOMAIN it THEN it[c] ELSE NULL]
       IN InsertItems(Tail(items), rows \cup {row}, itemCols)

\* the selection without its NOT EXISTS guard
ChildlessSales_unguarded(d) == d.rows["sales"]
\* the sales rows without a sale_items row
ChildlessSales(d) ==
  {r \in d.rows["sales"] : \A i \in d.rows["sale_items"] : i["sale_id"] # r["id"]}

\* for r in rows: ... , in rowid order
RECURSIVE BackfillLoop(_, _, _, _, _, _)
BackfillLoop(todo, rows, cols, itemCols, airlines, now) ==
  IF todo = {} THEN rows
  ELSE LET r == CHOOSE x \in todo : \A y \in todo : x["id"] <= y["id"]
       IN BackfillLoop(todo \ {r},
                       InsertItems(ItemsOf(r, cols, airlines, now), rows, itemCols),
                       cols, itemCols, airlines, now)

_backfill_sale_items(d, now) ==
  IF ~_table_exists(d, "sale_items") THEN d
  ELSE IF ChildlessSales(d) = {} THEN d
  ELSE [d EXCEPT !.rows["sale_items"] =
          BackfillLoop(ChildlessSales(d), d.rows["sale_items"], _get_columns(d, "sales"),
                       _get_columns(d, "sale_items"), d.rows["airlines"], now)]

\* relabel the ticket items and the ticket sales
_update_ticket_labels(d) ==
  IF ~_table_exists(d, "sale_items") THEN d
  ELSE [d EXCEPT
         !.rows["sale_items"] =
            {IF i["fee_source"] = TicketSource /\ \E x \in d.rows["sales"] : x["id"] = i["sale_id"]
             THEN LET x == CHOOSE y \in d.rows["sales"] : y["id"] = i["sale_id"]
                  IN [i EXCEPT !["fee_key"] = TICKET,
                               !["fee_name"] = _airline_label(d.rows["airlines"], x["airline_id"])]
             ELSE i : i \in d.rows["sale_items"]},
         !.rows["sales"] =
            {IF x["fee_source"] = TicketSource
             THEN [x EXCEPT !["fee_key"] = TICKET,
                            !["fee_name"] = _airline_label(d.rows["airlines"], x["airline_id"])]
             ELSE x : x \in d.rows["sales"]}]

Backfill ==
  /\ pc = "backfill"
  /\ Committed(_backfill_sale_items(db, Now(run)))
  /\ pc' = "labels"
  /\ h' = [h EXCEPT !.backfilled = TRUE]
  /\ UNCHANGED <<fkOn, ret, run, fs, fault, conn, web, app, crashes, outcome>>

\* _update_ticket_labels, then init_db returns and `with conn` commits
UpdateTicketLabels ==
  /\ pc = "labels"
  /\ Committed(_update_ticket_labels(db))
  /\ pc' = "idle"
  /\ outcome' = "ok"
  /\ conn' = Left(conn)
  /\ UNCHANGED <<fkOn, ret, run, fs, fault, app, crashes, h, web>>

\* the process dies inside a rebuild: the pending transaction is rolled back
Crash ==
  /\ pc \in UsersRebuildPcs \cup AuthRebuildPcs
  /\ crashes < MaxCrashes
  /\ crashes' = crashes + 1
  /\ db' = committed
  /\ inTxn' = FALSE
  /\ fkOn' = TRUE
  /\ pc' = "idle"
  /\ ret' = "none"
  /\ outcome' = "crashed"
  /\ h' = [h EXCEPT !.intSpan = h.intSpan \/ InShadowSpan,
                    !.intPre = IF h.intSpan THEN h.intPre ELSE h.pre]
  /\ conn' = [conn EXCEPT !.open = 0]
  /\ web' = Restarted(web)
  /\ UNCHANGED <<committed, run, fs, fault, app>>

\* ------------------------------------------- operations of the running app
\* the application serves requests once init_db has returned normally
Serving == pc = "idle" /\ outcome = "ok"
\* every operation opens its own connection and commits
AppCommit(d) ==
  /\ db' = d
  /\ committed' = d
  /\ conn' = Left([conn EXCEPT !.open = @ + 1])
  /\ UNCHANGED <<inTxn, fkOn, pc, ret, run, crashes, outcome, h, fs, fault, web>>

\* INSERT OR IGNORE in place of the upsert: an existing value stays
Upsert_ignore(d, k, v) ==
  IF \E r \in d.rows["app_state"] : r["key"] = k THEN d
  ELSE [d EXCEPT !.rows["app_state"] = @ \cup {[key |-> k, value |-> v]}]
\* INSERT INTO app_state(key, value) ... ON CONFLICT(key) DO UPDATE SET value
Upsert(d, k, v) ==
  IF \E r \in d.rows["app_state"] : r["key"] = k
  THEN [d EXCEPT !.rows["app_state"] =
          {IF r["key"] = k THEN [r EXCEPT !["value"] = v] ELSE r : r \in @}]
  ELSE [d EXCEPT !.rows["app_state"] = @ \cup {[key |-> k, value |-> v]}]
\* SELECT value FROM app_state WHERE key = ?; row["value"] if row else None
Lookup(d, k) ==
  IF \E r \in d.rows["app_state"] : r["key"] = k
  THEN (CHOOSE r \in d.rows["app_state"] : r["key"] = k)["value"]
  ELSE NULL

set_app_state ==
  /\ Serving /\ app.ops < MaxOps
  /\ \E k \in Keys, v \in Values :
        /\ AppCommit(Upsert(db, k, v))
        /\ app' = [app EXCEPT !.kv[k] = v, !.got = NoGet, !.ops = @ + 1, !.last = "set"]

delete_app_state ==
  /\ Serving /\ app.ops < MaxOps
  /\ \E k \in Keys :
        /\ AppCommit([db EXCEPT !.rows["app_state"] = {r \in @ : r["key"] # k}])
        /\ app' = [app EXCEPT !.kv[k] = NULL, !.got = NoGet, !.ops = @ + 1,
                              !.last = "delete"]

get_app_state ==
  /\ Serving /\ app.ops < MaxOps
  /\ \E k \in Keys :
        app' = [app EXCEPT !.got = [key |-> k, value |-> Lookup(db, k)],
                           !.ops = @ + 1, !.last = "get"]
  /\ conn' = Left([conn EXCEPT !.open = @ + 1])
  /\ UNCHANGED <<db, committed, inTxn, fkOn, pc, ret, run, crashes, outcome, h, fs, fault, web>>

\* the existence test without effect: the insert is always made
AdminExists_never(d) == FALSE
\* SELECT 1 FROM users WHERE nickname = 'Admin'
AdminExists(d) == \E r \in d.rows["users"] : r["nickname"] = AdminNick
\* the row ensure_default_admin inserts; columns it does not name take the
\* defaults of the table
DefaultAdminRow(d, now) ==
  [c \in _get_columns(d, "users") |->
     CASE c = "id" -> NextId(d.rows["users"])
       [] c \in {"fullname", "nickname"} -> AdminNick
       [] c = "password" -> 12345
       [] c = "role" -> Admin
       [] c \in {"must_change_password", "approved", "active"} -> 1
       [] c \in {"approved_at_utc", "created_at_utc"} -> now
       [] OTHER -> NULL]

ensure_default_admin ==
  /\ Serving /\ app.ops < MaxOps
  /\ IF AdminExists(db) THEN UNCHANGED <<db, committed>>
     ELSE db' = [db EXCEPT !.rows["users"] = @ \cup {DefaultAdminRow(db, Now(run))}]
          /\ committed' = db'
  /\ app' = [app EXCEPT !.got = NoGet, !.ops = @ + 1, !.last = "admin", !.admins = @ + 1]
  /\ conn' = Left([conn EXCEPT !.open = @ + 1])
  /\ UNCHANGED <<inTxn, fkOn, pc, ret, run, crashes, outcome, h, fs, fault, web>>

Next ==
  \/ StartInitDb
  \/ CreateUsers
  \/ RebuildCheck
  \/ RbFkOff
  \/ RbRename
  \/ RbCreate
  \/ RbCopy
  \/ RbBackfill
  \/ RbRepairCheck
  \/ RbDrop
  \/ RbFkOn
  \/ RaFkOff
  \/ RaRename
  \/ RaCreate
  \/ RaCopy
  \/ RaDrop
  \/ RaIndexes
  \/ RaFkOn
  \/ MigrateUsersAdd
  \/ AuthCreate
  \/ AuthRepairCheck
  \/ MigrateSalesLogs
  \/ Cleanup
  \/ CreateAppState
  \/ CreateAndMigrate
  \/ Backfill
  \/ UpdateTicketLabels
  \/ Crash

Spec == Init /\ [][Next]_vars

\* init_db on stores whose sales table holds every shape of legacy fee data
InitBackfill == Boot(BackfillStores \cup SharedAmountStores \cup TicketSaleStores, {"none"})
SpecBackfill == InitBackfill /\ [][Next]_vars

\* init_db followed by the operations of the running application
AppStores == {EmptyStore, LegacyStore("active", "old", "all", "legacy")}
InitApp == Boot(AppStores, {"none"})
NextApp ==
  \/ Next
  \/ set_app_state
  \/ delete_app_state
  \/ get_app_state
  \/ ensure_default_admin
SpecApp == InitApp /\ [][NextApp]_vars

\* the same under either way of finalizing connections
SpecConn == BootWith(AppStores, {"none"}, {"refcount", "deferred"}) /\ [][NextApp]_vars

\* ------------------------------------------- sessions and popup notifications
\* raw = get_app_state("notifications_popup_queue"); [] if not raw, else
\* json.loads(raw)
_get_popup_queue(d) ==
  LET raw == Lookup(d, PopupQueueKey) IN
  IF ~Truthy(raw) THEN {}
  ELSE {i \in Items : ((raw - JsonList) \div (2 ^ (i - 1))) % 2 = 1}
\* one step of a request: the store as the step leaves it, committed
WebStep(d, w) ==
  /\ Serving
  /\ db' = d
  /\ committed' = d
  /\ web' = w
  /\ UNCHANGED <<inTxn, fkOn, pc, ret, run, crashes, outcome, h, fs, fault, app, conn>>

\* a request arrives; the hook reads the popup queue for a logged-in session
\* that holds no popup notifications. The requests explored are those of the
\* last process start the bound allows, on a store no start was killed on,
\* and the sessions are those of Admins, for which every part of the hook runs
HookPopupRead(b) ==
  /\ web.req[b].at = "idle"
  /\ run = MaxRuns /\ crashes = 0
  /\ \E ep \in {"page", "login", "logout"} :
        LET c == web.cookie[b]
            reads == c.sid # 0 /\ c.popup = {}
            queue == IF reads THEN _get_popup_queue(db) ELSE {}
        IN WebStep(db, [web EXCEPT !.req[b] =
                          [at |-> IF queue # {} THEN "popup" ELSE "check",
                           ep |-> ep, why |-> "none", seen |-> queue]])

\* session["popup_notifications"] = queue; set_app_state(queue key, "")
HookPopupHand(b) ==
  /\ web.req[b].at = "popup"
  /\ LET seen == web.req[b].seen IN
     WebStep(Upsert(db, PopupQueueKey, EMPTY),
             [web EXCEPT !.cookie[b].popup = seen,
                         !.handed = [i \in Items |-> IF i \in seen THEN @[i] + 1 ELSE @[i]],
                         !.req[b] = [@ EXCEPT !.at = "check", !.seen = {}]])

\* the single-user and the timeout part of the hook, and the view it lets
\* run: a page ends; logout and re-login give the session up first; login
\* goes on to its checks
HookSingleUser(b) ==
  /\ web.req[b].at = "check"
  /\ LET c == web.cookie[b]
         r == web.req[b]
         active_sid == Lookup(db, ActiveSessionKey)
         cleared == [web EXCEPT !.cookie[b] = NoCookie]
         view(w) ==
           IF r.ep = "page" THEN [w EXCEPT !.req[b] = IdleRequest]
           ELSE IF w.cookie[b].sid # 0
           THEN [w EXCEPT !.req[b] =
                   [r EXCEPT !.at = "release",
                             !.why = IF r.ep = "login" THEN "relogin" ELSE "logout"]]
           ELSE IF r.ep = "login" THEN [w EXCEPT !.req[b].at = "login"]
           ELSE [w EXCEPT !.req[b] = IdleRequest]
     IN IF c.sid = 0
        THEN WebStep(db, view(web))
        ELSE IF Truthy(active_sid) /\ active_sid # c.sid
        THEN WebStep(db, IF r.ep = "login" THEN view(cleared)
                         ELSE [cleared EXCEPT !.req[b] = IdleRequest])
        ELSE \E expired \in BOOLEAN :
               WebStep(db, IF expired
                           THEN [web EXCEPT !.req[b] = [r EXCEPT !.at = "release", !.why = "timeout"]]
                           ELSE view(web))

\* if session.get("sid") == get_app_state("active_session_id"): the read;
\* session.clear() when the slot is another's, and login goes on
ReleaseRead(b) ==
  /\ web.req[b].at = "release"
  /\ LET c == web.cookie[b]
         r == web.req[b]
     IN IF c.sid = Lookup(db, ActiveSessionKey)
        THEN WebStep(db, [web EXCEPT !.req[b].at = "release_delete"])
        ELSE WebStep(db, [web EXCEPT !.cookie[b] = NoCookie,
                                     !.req[b] = IF r.why = "relogin"
                                                THEN [r EXCEPT !.at = "login", !.why = "none"]
                                                ELSE IdleRequest])

\* delete_app_state("active_session_id"); session.clear()
ReleaseDelete(b) ==
  /\ web.req[b].at = "release_delete"
  /\ LET r == web.req[b] IN
     WebStep([db EXCEPT !.rows["app_state"] = {x \in @ : x["key"] # ActiveSessionKey}],
             [web EXCEPT !.cookie[b] = NoCookie,
                         !.req[b] = IF r.why = "relogin"
                                    THEN [r EXCEPT !.at = "login", !.why = "none"]
                                    ELSE IdleRequest])

\* login behind its checks (the user is known and not blocked): a new sid
\* in the session and in the store
login(b) ==
  /\ web.req[b].at = "login"
  /\ \/ WebStep(db, [web EXCEPT !.req[b] = IdleRequest])
     \/ /\ "approved" \in db.cols["users"]
        /\ \E u \in db.rows["users"] : u["role"] = Admin /\ u["approved"] # 0
        /\ web.sids < MaxLogins
        /\ LET sid == web.sids + 1 IN
           WebStep(Upsert(db, ActiveSessionKey, sid),
                   [web EXCEPT !.cookie[b] = [sid |-> sid, popup |-> {}],
                               !.sids = sid,
                               !.req[b] = IdleRequest])

\* _enqueue_popup: items = _get_popup_queue()
EnqueueRead(e) ==
  /\ web.enq[e].at = "idle"
  /\ run = MaxRuns /\ crashes = 0
  /\ WebStep(db, [web EXCEPT !.enq[e] = [at |-> "read", seen |-> _get_popup_queue(db)]])

\* _enqueue_popup: items.append(item); _save_popup_queue(items)
EnqueueSave(e) ==
  /\ web.enq[e].at = "read"
  /\ WebStep(Upsert(db, PopupQueueKey, json_dumps(web.enq[e].seen \cup {e})),
             [web EXCEPT !.enq[e] = [at |-> "done", seen |-> {}]])

NextWeb ==
  \/ Next
  \/ \E b \in Browsers : HookPopupRead(b)
  \/ \E b \in Browsers : HookPopupHand(b)
  \/ \E b \in Browsers : HookSingleUser(b)
  \/ \E b \in Browsers : ReleaseRead(b)
  \/ \E b \in Browsers : ReleaseDelete(b)
  \/ \E b \in Browsers : login(b)
  \/ \E e \in Items : EnqueueRead(e)
  \/ \E e \in Items : EnqueueSave(e)
SpecWeb == Boot(AppStores, {"none"}) /\ [][NextWeb]_vars

\* init_db in an environment where one filesystem operation of the backup fails
BackupStores ==
  {EmptyStore, LegacyStore("active", "old", "all", "legacy"),
   LegacyStore("approved", "old", "auth", "none"),
   LegacyStore("full", "new", "none", "none")}
InitBackup == Boot(BackupStores, Faults)
SpecBackup == InitBackup /\ [][Next]_vars

\* init_db on stores whose tables hold duplicates of a unique key
InitDup == Boot(DupStores \cup {EmptyStore}, {"none"})
SpecDup == InitDup /\ [][Next]_vars

\* ------------------------------------------------------------ type check
TypeOK ==
  /\ pc \in {"idle", "create_users", "rb_check", "add_cols", "auth_create",
             "auth_repair_check", "sales_logs", "cleanup", "app_state",
             "backfill", "labels"}
            \cup UsersRebuildPcs \cup AuthRebuildPcs \cup TablePcs
  /\ outcome \in {"none", "ok", "error", "crashed"}
  /\ run \in 0..MaxRuns
  /\ inTxn \in BOOLEAN
  /\ fkOn \in BOOLEAN
  /\ ~inTxn => committed = db
  /\ fs.exists \in BOOLEAN /\ fs.dir \in BOOLEAN
  /\ Cardinality(fs.backups) <= KeepBackups + MaxRuns
  /\ fault \in Faults
  /\ app.ops \in 0..MaxOps
  /\ app.last \in {"none", "set", "delete", "get", "admin"}
  /\ conn.open \in Nat /\ conn.gc \in {"refcount", "deferred"}
  /\ web.sids \in 0..MaxLogins
  /\ \A b \in Browsers :
        /\ web.cookie[b].sid \in 0..web.sids
        /\ web.cookie[b].popup \subseteq Items
        /\ web.req[b].at \in {"idle", "popup", "check", "release", "release_delete", "login"}
        /\ web.req[b].ep \in {"none", "page", "login", "logout"}
        /\ web.req[b].why \in {"none", "timeout", "logout", "relogin"}
        /\ web.req[b].seen \subseteq Items
  /\ \A e \in Items :
        /\ web.enq[e].at \in {"idle", "read", "done"}
        /\ web.enq[e].seen \subseteq Items
        /\ web.handed[e] \in Nat

\* -------------------------------------------------------------- properties
\* init_db has returned normally
Done == pc = "idle" /\ outcome = "ok"
SchemaOf(d) == [cols |-> d.cols, check |-> d.check, fk |-> d.fk, idx |-> d.idx]
RowCounts(d) == [t \in AllTables |-> Cardinality(d.rows[t])]
\* the managed tables that reference users
Dependents == FkTables \ {"auth_logs_old"}

C2_RebuildKeepsValues ==
  (Done /\ h.rebuilt) =>
     /\ Ids(db, "users") = Ids(h.rbPre, "users")
     /\ \A r \in h.rbPre.rows["users"] : \A r2 \in db.rows["users"] :
           r2["id"] = r["id"] =>
              \A c \in h.rbPre.cols["users"] \cap db.cols["users"] : r2[c] = r[c]

\* C3: when the users rebuild ends, every row of every dependent table that
\* existed before it still exists with the same user reference, and that
\* reference still identifies a users row.
C3_DependentsKept ==
  (pc = "add_cols" /\ h.rebuilt) =>
     \A t \in Dependents : \A r \in h.rbPre.rows[t] :
        \E r2 \in db.rows[t] :
           /\ r2["id"] = r["id"]
           /\ r2[FkCol(t)] = r[FkCol(t)]
           /\ r[FkCol(t)] # NULL => r[FkCol(t)] \in Ids(db, "users")

\* C4: users_old is dropped only when no existing table has a foreign key
\* that names users_old.
C4_DropAfterRepair ==
  [][(_table_exists(db, "users_old") /\ ~_table_exists(db', "users_old")) =>
       \A t \in FkTables : _table_exists(db, t) => db.fk[t] # "users_old"]_vars

\* the ids of the rows the audit-log cleanup does not remove
KeptIds(d, t) == {r["id"] : r \in {x \in d.rows[t] : RowGet(x, "created_at_utc") # OLD}}
\* C5: after a run interrupted between the rename to a shadow and its drop,
\* the next completed init_db leaves users and auth_logs holding every row
\* they held before the interrupted run.
C5_NoRowLostAcrossInterrupt ==
  (Done /\ h.intSpan) =>
     /\ Ids(h.intPre, "users") \subseteq Ids(db, "users")
     /\ KeptIds(h.intPre, "auth_logs") \subseteq Ids(db, "auth_logs")

\* C6: when init_db completes, neither users_old nor auth_logs_old exists.
C6_NoShadowSurvives ==
  Done => \A t \in ShadowTables : ~_table_exists(db, t)

\* C7: when init_db completes, every managed table has every column of its
\* CREATE TABLE definition.
C7_SchemaCurrent ==
  Done => \A t \in ManagedTables : CreateCols(t) \subseteq db.cols[t]

\* C8: init_db on an empty store ends without an error and leaves every
\* managed table in place.
C8_FirstRun ==
  (pc = "idle" /\ run > 0 /\ h.pre = EmptyStore) =>
     /\ outcome = "ok"
     /\ \A t \in ManagedTables : _table_exists(db, t)
\* the first run on an empty store has ended
C8_Witness == pc = "idle" /\ run = 1 /\ h.pre = EmptyStore /\ _table_exists(db, "users")

\* C9: after init_db completes on a store whose users CHECK listed only
\* 'User' and 'Admin', the CHECK accepts 'Deputy' beside them and still
\* rejects any other role.
C9_DeputyAccepted ==
  (Done /\ h.pre.check["users"] = "old") =>
     /\ \A role \in {User, Admin, Deputy} : CheckAccepts(db, role)
     /\ ~CheckAccepts(db, Boss)
\* a run that started with the old CHECK and rebuilt users has completed
C9_Witness == Done /\ h.pre.check["users"] = "old" /\ h.rebuilt

\* a rebuild function has just returned or raised
RebuildEnded ==
  \/ pc = "add_cols" /\ h.rebuilt
  \/ pc \in {"rb_drop", "sales_logs"} /\ h.repaired
  \/ pc = "idle" /\ outcome = "error" /\ h.raisedIn # "none"
\* C10: whenever a rebuild function ends, by returning or by raising,
\* foreign-key enforcement is ON.
C10_FkRestored == RebuildEnded => fkOn

\* the statement init_db is about to execute fails: a rename onto an
\* existing shadow table, or a copy that breaks a NOT NULL constraint
StructuralFailure ==
  \/ pc = "rb_rename" /\ _table_exists(db, "users_old")
  \/ pc = "ra_rename" /\ _table_exists(db, "auth_logs_old")
  \/ pc = "rb_copy" /\ CopyViolatesNotNull(db, "users_old", "users")
  \/ pc = "ra_copy" /\ CopyViolatesNotNull(db, "auth_logs_old", "auth_logs")
\* C11: when a structural statement of init_db fails, init_db ends with the
\* error and none of its later statements runs; nothing runs after an error
\* until init_db is called again.
C11_StructuralFailureFatal ==
  [][/\ StructuralFailure => (pc' = "idle" /\ outcome' \in {"error", "crashed"})
     /\ outcome = "error" => (pc = "idle" /\ run' = run + 1)]_vars
\* the rebuild's copy has failed and init_db has ended with the error
C11_Witness == pc = "idle" /\ outcome = "error" /\ h.raisedIn = "users"

\* the sale_items rows of one sales row
Children(d, id) == {i \in d.rows["sale_items"] : i["sale_id"] = id}
RECURSIVE SumTotals(_)
SumTotals(items) ==
  IF items = {} THEN 0
  ELSE LET i == CHOOSE x \in items : TRUE
       IN i["total_amount"] + SumTotals(items \ {i})
\* the legacy fee data a sales row carries
HasFlat(r) == RowGet(r, "fee_name") \notin {NULL, EMPTY}
HasAirline(r) == RowGet(r, "airline_fee_name") \notin {NULL, EMPTY}
HasAirport(r) == RowGet(r, "airport_fee_name") \notin {NULL, EMPTY}
HasTicket(r) == RowGet(r, "ticket_qty") # NULL /\ RowGet(r, "ticket_qty") > 0
\* a quantity, 1 when absent; an amount, 0 when absent
QtyOr1(q) == IF q = NULL \/ q = 0 THEN 1 ELSE q
AmountOr0(a) == IF a = NULL THEN 0 ELSE a
\* amount times quantity summed over the non-empty legacy fees of a row
LegacyTotal(r) ==
  (IF HasFlat(r) THEN AmountOr0(r["amount"]) * QtyOr1(r["quantity"]) ELSE 0)
  + (IF HasAirline(r) THEN AmountOr0(r["airline_amount"]) * QtyOr1(r["airline_qty"]) ELSE 0)
  + (IF HasAirport(r) THEN AmountOr0(r["airport_amount"]) * QtyOr1(r["airport_qty"]) ELSE 0)
  + (IF HasTicket(r) THEN AmountOr0(r["ticket_amount"]) * r["ticket_qty"] ELSE 0)
\* the sales rows the backfill step finds without children
Childless == {r \in db.rows["sales"] : Children(db, r["id"]) = {}}

\* C12: every sales row without children that carries legacy fee data has,
\* after the backfill step, at least one child, and its children's
\* total_amount sums to amount times quantity over its non-empty legacy fees.
C12_BackfillComplete ==
  [][pc = "backfill" =>
       \A r \in Childless :
          (HasFlat(r) \/ HasAirline(r) \/ HasAirport(r) \/ HasTicket(r)) =>
             /\ Children(db', r["id"]) # {}
             /\ SumTotals(Children(db', r["id"])) = LegacyTotal(r)]_vars

SlotCount(r) ==
  (IF HasAirline(r) THEN 1 ELSE 0) + (IF HasAirport(r) THEN 1 ELSE 0)
  + (IF HasTicket(r) THEN 1 ELSE 0)
\* C14: for a sales row without children the backfill step emits one child
\* per non-empty slot and no flat child if any slot carries a value, else one
\* child from the flat columns if fee_name is non-empty, else none.
C14_MostSpecificFirst ==
  [][pc = "backfill" =>
       \A r \in Childless :
          LET kids == Children(db', r["id"])
              from(src) == {i \in kids : i["fee_source"] = src}
          IN IF SlotCount(r) > 0
             THEN /\ Cardinality(kids) = SlotCount(r)
                  /\ Cardinality(from(AirlineSource)) = (IF HasAirline(r) THEN 1 ELSE 0)
                  /\ Cardinality(from(AirportSource)) = (IF HasAirport(r) THEN 1 ELSE 0)
                  /\ Cardinality(from(TicketSource)) = (IF HasTicket(r) THEN 1 ELSE 0)
                  /\ \A i \in from(AirlineSource) : i["fee_name"] = r["airline_fee_name"]
             ELSE IF HasFlat(r)
             THEN /\ Cardinality(kids) = 1
                  /\ \A i \in kids : i["fee_name"] = r["fee_name"]
             ELSE kids = {}]_vars

\* C15: every row the backfill step inserts stores total_amount = amount *
\* quantity; for a child made from the flat columns the quantity is the
\* row's quantity, or 1 when that is NULL or zero, and the amount is the
\* row's amount, or 0 when that is NULL.
C15_TotalIsAmountTimesQty ==
  [][pc = "backfill" =>
       /\ \A i \in db'.rows["sale_items"] \ db.rows["sale_items"] :
             i["total_amount"] = i["amount"] * i["quantity"]
       /\ \A r \in Childless :
             (HasFlat(r) /\ SlotCount(r) = 0) =>
                \A i \in Children(db', r["id"]) :
                   /\ i["quantity"] = QtyOr1(r["quantity"])
                   /\ i["amount"] = AmountOr0(r["amount"])]_vars
\* the backfill has made a child from a row whose quantity was zero
C15_Witness ==
  /\ pc = "labels"
  /\ \E r \in db.rows["sales"] :
        /\ HasFlat(r) /\ SlotCount(r) = 0 /\ r["quantity"] = 0
        /\ \E i \in Children(db, r["id"]) :
              i["created_at_utc"] = Now(run) /\ i["quantity"] = 1 /\ i["total_amount"] = 10

\* the migration init_db is about to run creates a unique index over rows
\* that hold a duplicate key
UniqueIndexFails ==
  /\ pc \in TablePcs
  /\ _table_exists(db, pc)
  /\ UniqueKey(pc) # {}
  /\ \A i \in db.idx : i[1] # UniqueIndexName(pc)
  /\ HasDuplicates(db, pc, UniqueKey(pc))
\* C18: when the creation of a unique index fails on duplicate rows, init_db
\* does not fail and goes on with the step after that table's migration.
C18_UniqueIndexTolerant ==
  [][UniqueIndexFails => (outcome' # "error" /\ pc' = AfterTable(pc))]_vars

\* C16: whatever filesystem operation of the backup fails, a call of init_db
\* gets past _backup_db_on_startup and arrives at its first statement.
C16_BackupNeverBlocks ==
  [][(pc = "idle" /\ run' = run + 1) => pc' = "create_users"]_vars

\* what the backup owes a run: a copy named for this run when the store
\* file existed at the call, nothing touched when it did not
BackupInPlace ==
  IF h.preFs.exists THEN Now(run) \in fs.backups
  ELSE fs.dir = h.preFs.dir /\ fs.backups = h.preFs.backups
\* C17 as stated: in every run of init_db, from before its first statement
\* on, the copy of the store file made at the call exists; on an absent
\* store file the backup creates nothing.
C17_BackupBeforeChange == pc # "idle" => BackupInPlace
\* C17 amended: the same, except in an environment where copying the file
\* fails, where init_db runs without a backup.
C17_BackupUnlessCopyFails == (pc # "idle" /\ fault # "copy") => BackupInPlace
\* the rename of users has run with this run's copy kept by the pruning
C17_Witness ==
  /\ pc = "rb_create" /\ _table_exists(db, "users_old")
  /\ Now(run) \in fs.backups
  /\ Cardinality(fs.backups) = KeepBackups

\* C19: app_state holds at most one row per key, the store holds for every
\* key the value of its latest set_app_state not followed by a
\* delete_app_state, or no row, and get_app_state returns that value, or
\* None.
C19_KeyValueState ==
  /\ \A k \in Keys : Cardinality({r \in db.rows["app_state"] : r["key"] = k}) <= 1
  /\ \A k \in Keys : Lookup(db, k) = app.kv[k]
  /\ app.got # NoGet => app.got.value = app.kv[app.got.key]
\* one key has been set and read back while
\* another key is held
C19_Witness ==
  /\ app.last = "get" /\ app.ops = MaxOps
  /\ app.got.value # NULL
  /\ \E k \in Keys : k # app.got.key /\ app.kv[k] # NULL

\* the users rows with nickname 'Admin'
AdminRows(d) == {r \in d.rows["users"] : r["nickname"] = AdminNick}
\* C20: a call of ensure_default_admin inserts one row with nickname
\* 'Admin', role 'Admin', approved = 1 and must_change_password = 1 when no
\* row has that nickname and changes nothing otherwise; after a call there
\* is exactly one such row.
C20_DefaultAdminOnce ==
  [][app'.admins = app.admins + 1 =>
       /\ IF AdminRows(db) = {}
          THEN /\ db.rows["users"] \subseteq db'.rows["users"]
               /\ Cardinality(db'.rows["users"]) = Cardinality(db.rows["users"]) + 1
               /\ \A r \in AdminRows(db') :
                     /\ r["role"] = Admin
                     /\ r["approved"] = 1
                     /\ r["must_change_password"] = 1
          ELSE db' = db
       /\ Cardinality(AdminRows(db')) = 1]_vars
\* ensure_default_admin has been called twice
C20_Witness == app.admins = 2 /\ app.last = "admin" /\ Cardinality(AdminRows(db)) = 1

\* the users rebuild of this run has renamed users and not yet dropped users_old
InUsersRebuildSpan ==
  \/ pc \in UsersShadowSpan
  \/ pc \in AuthRebuildPcs /\ ret = "rb_drop"
\* C21: from the rename of users to the drop of users_old, the nested
\* auth_logs repair included, foreign-key enforcement is OFF.
C21_FkOffDuringRebuild == InUsersRebuildSpan => ~fkOn

\* C22: the users table the rebuild creates has the column set and the role
\* CHECK of the users definition of init_db.
C22_RebuildDefinitionCurrent ==
  (pc = "rb_copy") =>
     /\ _get_columns(db, "users") = UsersCols
     /\ db.check["users"] = "new"

\* C23: in a run of init_db the users rebuild starts only after the additive
\* column migration of users of that run.
C23_AdditiveBeforeRebuild == pc \in UsersRebuildPcs => h.added

\* the tables the FOREIGN KEY clauses of the CREATE TABLE of t reference
FkTargets(t) ==
  CASE t \in {"auth_logs", "report_snapshots", "variable_rewards_snapshots"} -> {"users"}
    [] t = "sales_logs" -> {"users", "sales"}
    [] t = "notification_logs" -> {"notification_templates"}
    [] t \in {"airline_fees", "airline_destinations"} -> {"airlines"}
    [] t = "sales" -> {"airlines", "airline_destinations"}
    [] t = "sale_items" -> {"sales"}
    [] OTHER -> {}
\* C24: a step that creates a managed table finds every table its foreign
\* keys reference already created.
C24_ParentsBeforeChildren ==
  [][\A t \in ManagedTables :
       (~_table_exists(db, t) /\ _table_exists(db', t)) =>
          \A p \in FkTargets(t) : _table_exists(db, p)]_vars

\* C25: the audit-log cleanup runs only after the backfill of sale_items of
\* the same run, with the three log tables created.
C25_CleanupLast ==
  (pc = "cleanup") =>
     /\ h.backfilled
     /\ \A t \in {"auth_logs", "sales_logs", "notification_logs"} : _table_exists(db, t)

\* the legacy table of this run had no column c when init_db started
AbsentAtStart(c) == c \notin h.pre.cols["sales"]
\* C26: a child emitted for a non-empty airline or airport slot of a row whose
\* slot-specific amount is absent carries the row's shared amount.
C26_SlotAmountFallback ==
  [][pc = "backfill" =>
       \A r \in Childless :
          /\ (HasAirline(r) /\ AbsentAtStart("airline_amount")) =>
                \A i \in Children(db', r["id"]) :
                   i["fee_source"] = AirlineSource => i["amount"] = RowGet(r, "amount")
          /\ (HasAirport(r) /\ AbsentAtStart("airport_amount")) =>
                \A i \in Children(db', r["id"]) :
                   i["fee_source"] = AirportSource => i["amount"] = RowGet(r, "amount")]_vars

\* the source and the destination of the copy the program is about to run
CopySrc == IF pc = "rb_copy" THEN "users_old" ELSE "auth_logs_old"
CopyDst == IF pc = "rb_copy" THEN "users" ELSE "auth_logs"
\* the dst row the claim expects for a src row
ExpectedCopy(r) ==
  [c \in db.cols[CopyDst] |->
     IF c \in db.cols[CopySrc] THEN r[c] ELSE RebuildDefault(CopyDst, c)]
\* C27: a call of _copy_table_data adds to dst one row per src row, equal to
\* it on the common columns and holding the dst default elsewhere; the number
\* of rows added is the number of rows of src.
C27_CopyByIntersection ==
  [][(pc \in {"rb_copy", "ra_copy"} /\ crashes' = crashes) =>
       /\ db'.rows[CopyDst] = db.rows[CopyDst] \cup {ExpectedCopy(r) : r \in db.rows[CopySrc]}
       /\ Cardinality(db'.rows[CopyDst]) =
            Cardinality(db.rows[CopyDst]) + Cardinality(db.rows[CopySrc])]_vars

\* the creation text of users mentions 'Deputy', or users does not exist
AlreadyCorrected(d) == ~_table_exists(d, "users") \/ d.check["users"] = "new"
\* C28: on a corrected (or absent) users table the rebuild decision changes
\* neither the store nor foreign-key enforcement and goes on to the additive
\* migration; a completed rebuild leaves a corrected table; over all the
\* bootstraps users is renamed to its shadow at most once.
C28_RebuildOnlyOnce ==
  [][/\ (pc = "rb_check" /\ AlreadyCorrected(db) /\ crashes' = crashes) =>
          (db' = db /\ fkOn' = fkOn /\ pc' = "add_cols")
     /\ (pc = "rb_fk_on" /\ pc' = "add_cols") => AlreadyCorrected(db')
     /\ h'.renames <= 1]_vars
\* a later bootstrap has passed the decision without rebuilding, after the
\* rebuild of an earlier one
C28_Witness ==
  /\ run >= 2
  /\ pc = "add_cols"
  /\ ~h.rebuilt
  /\ h.renames = 1

\* auth_logs exists and its definition names users_old as referenced table
NamesShadow(d) == _table_exists(d, "auth_logs") /\ d.fk["auth_logs"] = "users_old"
\* C29: both callers of _auth_logs_references_users_old start the repair
\* exactly when auth_logs exists and its definition names users_old, with or
\* without a users_old table; right after _rebuild_auth_logs the answer is
\* false.
C29_RepointingDetected ==
  [][/\ (pc \in {"rb_repair_check", "auth_repair_check"} /\ crashes' = crashes) =>
          ((pc' = "ra_fk_off") <=> NamesShadow(db))
     /\ (pc = "ra_fk_on" /\ crashes' = crashes) => ~NamesShadow(db')]_vars
\* the repair has been started for an auth_logs naming a users_old that does
\* not exist
C29_Witness ==
  /\ pc = "ra_fk_off"
  /\ ret = "sales_logs"
  /\ NamesShadow(db)
  /\ ~_table_exists(db, "users_old")

\* C30: when _rebuild_auth_logs returns, auth_logs has the columns and the
\* rows it had when the repair started, its two indexes exist and its foreign
\* key references users.
C30_RepairOnlyRepoints ==
  [][(pc = "ra_fk_on" /\ crashes' = crashes) =>
       /\ _get_columns(db', "auth_logs") = _get_columns(h.raPre, "auth_logs")
       /\ db'.rows["auth_logs"] = h.raPre.rows["auth_logs"]
       /\ \A n \in IndexNames("auth_logs") : <<n, "auth_logs">> \in db'.idx
       /\ db'.fk["auth_logs"] = "users"]_vars

\* the table an additive migration step is about to migrate
MigratedTable == IF pc = "add_cols" THEN "users" ELSE pc
\* a step of an additive migration that ends without raising
AdditiveStep ==
  /\ pc \in TablePcs \cup {"add_cols"}
  /\ _table_exists(db, MigratedTable)
  /\ crashes' = crashes
  /\ outcome' # "error"
\* the columns the migration of t overwrites with the current time after
\* its add-column statements, in the rows that hold NULL or '' there
StampedAfterAdd(t) ==
  StampCols(t) \cup
  (IF t = "users" /\ "approved" \notin _get_columns(db, "users")
   THEN {"approved_at_utc"} ELSE {})
\* r1 is the row r after the add-column statements of the migration of t;
\* the cells of the columns in exempt that were NULL, '' or absent are left open
AddedTo(r, r1, t, exempt) ==
  /\ \A c \in _get_columns(db, t) :
        (c \in exempt /\ r[c] \in {NULL, EMPTY}) \/ r1[c] = r[c]
  /\ \A c \in _get_columns(db', t) \ _get_columns(db, t) :
        c \in exempt \/ r1[c] = AddDefault(t, c)
Additive(exempt) ==
  LET t == MigratedTable
  IN /\ _get_columns(db', t) = _get_columns(db, t) \cup MigrateCols(t)
     /\ Cardinality(db'.rows[t]) = Cardinality(db.rows[t])
     /\ \A r \in db.rows[t] : \E r1 \in db'.rows[t] : AddedTo(r, r1, t, exempt)
CreatedStamped ==
  {"users", "airlines", "airline_destinations", "notification_emails",
   "notification_templates", "report_snapshots", "variable_rewards_snapshots",
   "sale_items"}
HasCreated(r) == RowGet(r, "created_at_utc") \notin {NULL, EMPTY}
\* C32: after a completed init_db no row of a stamped table has a NULL or
\* empty created_at_utc, and every row that had one before the run still
\* carries it.
C32_CreatedStamped ==
  Done =>
    \A t \in CreatedStamped :
       /\ \A r \in db.rows[t] : HasCreated(r)
       /\ \A r \in h.pre.rows[t] :
             HasCreated(r) =>
                \E r1 \in db.rows[t] :
                   r1["id"] = r["id"] /\ r1["created_at_utc"] = r["created_at_utc"]

\* C33: after a completed init_db every users row of a store without the
\* approved column has approved = 1, and every users row of a store with
\* the column has the approved value it had.
C33_NoLockout ==
  Done =>
    \A r \in h.pre.rows["users"] :
       \E r1 \in db.rows["users"] :
          /\ r1["id"] = r["id"]
          /\ r1["approved"] = (IF "approved" \in h.pre.cols["users"] THEN r["approved"] ELSE 1)
\* init_db has completed after a rebuild that introduced approved, with
\* every account approved
C33_Witness ==
  /\ Done
  /\ h.rebuilt
  /\ "approved" \notin h.pre.cols["users"]
  /\ h.pre.rows["users"] # {}
  /\ \A r \in db.rows["users"] : r["approved"] = 1

\* _backup_db_on_startup is called on an existing store file and returns
BackupReturns == pc = "idle" /\ run' = run + 1 /\ fs.exists /\ pc' = "create_users"
\* the backup files present once the copy has been attempted
PresentAfterCopy ==
  IF fault = "copy" THEN fs.backups ELSE fs.backups \cup {Now(run + 1)}
\* the n greatest names of a set of file names
Greatest(files, n) == {f \in files : Cardinality({g \in files : g > f}) < n}
Retention ==
  /\ Cardinality(fs'.backups) <= KeepBackups
  /\ fs'.backups = Greatest(PresentAfterCopy, KeepBackups)
  /\ Now(run + 1) \in fs'.backups
\* C34 as stated: after a run of the backup whose removals succeed at most
\* 30 backup files remain, the 30 greatest names present after the copy,
\* the new copy among them.
C34_Retention == [][(BackupReturns /\ fault # "remove") => Retention]_vars
\* C34: the same for the runs in which the copy and the listing of the
\* directory succeed as well.
C34_RetentionUnlessFault ==
  [][(BackupReturns /\ fault \notin {"remove", "copy", "listdir"}) => Retention]_vars
\* a run has pruned the oldest file of a full directory and kept its own copy
C34_Witness ==
  /\ pc = "create_users"
  /\ fault = "none"
  /\ h.preFs.backups = FullBackups
  /\ fs.backups = (FullBackups \ {Now(0) - KeepBackups}) \cup {Now(run)}

\* the legacy fee columns of sales
LegacyFeeCols ==
  {"fee_source", "fee_key", "fee_name", "amount", "quantity",
   "airline_fee_id", "airline_fee_key", "airline_fee_name", "airline_amount",
   "airline_qty", "airline_total", "airport_fee_id", "airport_fee_key",
   "airport_fee_name", "airport_amount", "airport_qty", "airport_total",
   "ticket_qty", "ticket_amount", "ticket_total"}
\* C35: a step of the backfill stage (the backfill of sale_items, the
\* ticket-label pass) inserts and deletes no sales row and changes no legacy
\* fee column of a sales row.
C35_ParentsUntouched ==
  [][(pc \in {"backfill", "labels"} /\ crashes' = crashes) =>
       /\ Ids(db', "sales") = Ids(db, "sales")
       /\ \A r \in db.rows["sales"] :
             \E r1 \in db'.rows["sales"] :
                /\ r1["id"] = r["id"]
                /\ \A c \in LegacyFeeCols : r1[c] = r[c]]_vars

\* C36: whenever no function of the data layer is running, no connection is
\* open.
C36_ConnectionsReleased == pc = "idle" => conn.open = 0

\* the hook lets the request of browser b through with its session intact
HookPasses(b) ==
  /\ web.req[b].at = "check"
  /\ web'.req[b].at # "check"
  /\ web.cookie[b].sid # 0
  /\ web'.cookie[b].sid = web.cookie[b].sid
  /\ web'.req[b].why # "timeout"
\* the session ids that the hook's check would let through
PassingSids(d, w) ==
  {w.cookie[b].sid : b \in {x \in Browsers : w.cookie[x].sid # 0}}
    \cap (IF Truthy(Lookup(d, ActiveSessionKey)) THEN {Lookup(d, ActiveSessionKey)}
          ELSE 1..MaxLogins)
\* C37: once a later login has succeeded, the hook never again lets a request
\* of an earlier session through as logged-in, and at every point at most
\* one session id passes the hook's check.
C37_SingleActiveSession ==
  [][/\ \A b \in Browsers : HookPasses(b) => web.cookie[b].sid = web.sids
     /\ Cardinality(PassingSids(db', web')) <= 1]_vars

\* browser b's request deletes the stored active_session_id
Releases(b) == web.req[b].at = "release_delete" /\ web'.req[b].at # "release_delete"
\* C38: the logout, timeout or re-login of a session deletes
\* active_session_id only while the stored value is that session's own sid;
\* it never removes the value another session's login wrote.
C38_ReleasesOwnSlot ==
  [][\A b \in Browsers :
        Releases(b) => Lookup(db, ActiveSessionKey) \in {NULL, web.cookie[b].sid}]_vars

\* C39: every item _enqueue_popup appended is still in the stored
\* notifications_popup_queue or has been handed to exactly one session's
\* popup_notifications, and to no second one.
C39_NoPopupLost ==
  \A i \in Items :
    /\ web.handed[i] <= 1
    /\ web.enq[i].at = "done" => (i \in _get_popup_queue(db) \/ web.handed[i] = 1)


====
